---- MODULE Spec2Model ----
(***************************************************************************)
(* State-machine model of the Streamable-HTTP session manager              *)
(* (src/src/httpMcpServer.js), of the process-level shutdown paths of the  *)
(* entry point (src/unnamed/part_009) and of the lazy tool catalog of one  *)
(* Session Core (src/src/githubServerFactory.js).                          *)
(*                                                                         *)
(* One action is one synchronous run of JavaScript between two suspension  *)
(* points (await / event-loop turn).  Calls into the MCP SDK transport and *)
(* the clock are the environment: their outcomes are drawn with \E.        *)
(***************************************************************************)
EXTENDS Integers, Sequences, FiniteSets, Bags, TLC

(* ------------------------------ bounds -------------------------------- *)
\* session contexts an execution may construct (initialize requests admitted)
MaxInits == 1
\* GC periods the clock may run through
MaxTicks == 2
\* the call counters of a ctx saturate here
CountCap == 2

(* -------------------------- program constants ------------------------- *)
MinTickMs == 1000
MaxTickMs == 30000
TickDivisor == 5

NoSid == 0
\* an identifier the server never issued (randomUUID values are not guessable)
NeverIssued == NoSid - 1

Min(a, b) == IF a < b THEN a ELSE b
Max(a, b) == IF a > b THEN a ELSE b

(* ------------------------------ state --------------------------------- *)
VARIABLES
  cfg,        \* the options startHttpMcpServer was called with
  sessions,   \* keys of the `sessions` Map (session ids)
  ctx,        \* every ctx object constructed so far; ctx[k] owns transport k
  reqs,       \* bag of the requests being handled, each with the await it is at
  resp,       \* the last response written
  now,        \* Date.now()
  nextGc,     \* when the setInterval sweep fires next
  gcArmed,    \* gcInterval is set and not cleared
  closeSt,    \* progress of the returned close()
  closeQueue, \* Array.from(sessions.keys()) still to be visited by close()
  closeWait,  \* the session whose cleanup close() is awaiting (0: none)
  startup,    \* outcome of the startHttpMcpServer call ("starting": none yet)
  mode,         \* TRANSPORT: "stdio" or "http"
  shuttingDown, \* the flag of closeAll (stdio) / shutdownHttp (http)
  procSt,       \* where the process is: running, at an await of the
                \* shutdown routine, or exited
  exitCode,     \* the code the process exits with
  forceExit,    \* the 5 s timer of closeAll
  fired,        \* shutdown triggers that have occurred
  routed,       \* triggers whose handler called the shutdown routine
  routineRuns,  \* times the body of the shutdown routine was entered
  TOOL_MODE,    \* toolMode of the Session Core: "lazy" or "full"
  toolOutput,   \* toolOutput of the Session Core: text, structured or both
  toolOutputSchemaMode, \* none, bootstrap or all_loose
  globalLastRequestTime, \* Date.now() of the last stamp of rateLimitedRequest
  callers,      \* the pending calls of rateLimitedRequest: where each waits
  fetchedAt,    \* the times at which fetch was called, in order
  idleTimeout,  \* the call of resolveIdleTimeoutMs at startup and its result
  PRELOAD_GROUPS, \* preloadGroups of the Session Cores
  peers,        \* loadedGroups of the Session Cores of the other sessions
  loadOrder,    \* the members of loadedGroups in their insertion order
  loadedGroups, \* the Set loadedGroups of the Session Core
  listed,       \* the result of the last tools/list request
  called        \* the tool of the last tools/call request and its outcome

httpVars == <<cfg, sessions, ctx, reqs, resp, now, nextGc, gcArmed,
              closeSt, closeQueue, closeWait, startup>>

procVars == <<mode, shuttingDown, procSt, exitCode, forceExit, fired,
              routed, routineRuns>>

catVars == <<TOOL_MODE, toolOutput, toolOutputSchemaMode, PRELOAD_GROUPS,
             loadedGroups, loadOrder, listed, called, peers>>

polVars == <<idleTimeout>>
rlVars == <<globalLastRequestTime, callers, fetchedAt>>
vars == <<httpVars, procVars, catVars, polVars, rlVars>>

(* --------------------------- configuration ---------------------------- *)
\* const cutoverAuthToken = oauthCutoverToken || authToken || ""
cutoverAuthToken(c) ==
  IF c.oauthCutoverToken # "" THEN c.oauthCutoverToken ELSE c.authToken

\* faulty startup checks that accept a cutover path without a token
StartupOkAlways(c) == TRUE

\* the startup checks on the cutover endpoint (the listener starts only if
\* they pass)
StartupOk(c) == ~(c.cutoverPath /\ cutoverAuthToken(c) = "")

\* tickMs = Math.min(Math.max(1000, Math.floor(idleTimeoutMs / 5)), 30_000)
tickMs(T) == Min(Max(MinTickMs, T \div TickDivisor), MaxTickMs)

authTokenForEndpoint(kind) ==
  IF kind = "cutover" THEN cutoverAuthToken(cfg) ELSE cfg.authToken

(* ----------------------------- requests ------------------------------- *)
\* String.prototype.toLowerCase on the header values the model uses
Lower(s) ==
  CASE s = "HTTPS://APP.EXAMPLE" -> "https://app.example"
    [] s = "MCP.EXAMPLE" -> "mcp.example"
    [] s = "LOCALHOST" -> "localhost"
    [] OTHER -> s

\* isAllowed(value, allowlist)
isAllowed(value, allowlist) ==
  IF allowlist = {} THEN TRUE
  ELSE IF value = "" THEN FALSE
  ELSE \E a \in allowlist : Lower(a) = Lower(value)

\* a faulty Origin rule that also rejects requests without Origin header
rejectIfOriginNotAllowedStrict(r) ==
  IF cfg.allowedOrigins = {} THEN FALSE
  ELSE ~isAllowed(r.origin, cfg.allowedOrigins)

\* rejectIfOriginNotAllowed: TRUE when the request was answered 403.
\* r.origin is the value of the Origin header ("": no such header, or an
\* empty one; the code does not tell them apart).
rejectIfOriginNotAllowed(r) ==
  IF r.origin = "" THEN FALSE
  ELSE IF cfg.allowedOrigins = {} THEN FALSE
  ELSE ~isAllowed(r.origin, cfg.allowedOrigins)

\* rejectIfHostNotAllowed: TRUE when the request was answered 403.
\* r.host is the value of the Host header ("": no such header).
rejectIfHostNotAllowed(r) ==
  IF cfg.allowedHosts = {} THEN FALSE
  ELSE ~isAllowed(r.host, cfg.allowedHosts)

\* a faulty unauthorizedChallenge that lets every request through
unauthorizedChallengeNever(r, token) == FALSE

\* unauthorizedChallenge(req, res, token): TRUE when it answered 401.
\* r.auth is the token of the Authorization header ("" when there is no
\* such header or it is not of the form "Bearer <token>").
unauthorizedChallenge(r, token) ==
  IF token = "" THEN FALSE ELSE r.auth # token

\* the endpoint a request path names ("none": no configured endpoint)
endpointKindOf(r) ==
  IF r.path = "primary" THEN "primary"
  ELSE IF cfg.cutoverPath /\ r.path = "cutover" THEN "cutover"
  ELSE "none"

(* ------------------------- session teardown --------------------------- *)
Bump(n) == Min(n + 1, CountCap)

\* a faulty cleanupSession guard that always returns early
cleanupNeededNever(S, sid) == FALSE

\* a faulty cleanupSession guard that never returns early
cleanupNeededAlways(S, sid) == TRUE

\* const ctx = sessions.get(sessionId); if (!ctx) return;
cleanupNeeded(S, sid) == sid \in S

\* a faulty teardown that leaves the entry in the table
teardownBodyKeepsEntry(st, sid) ==
  [sessions |-> st.sessions,
   ctx |-> [st.ctx EXCEPT ![sid].stage = "closing",
                          ![sid].bodyRuns = Bump(@),
                          ![sid].closeCalls = Bump(@)]]

\* cleanupSession's synchronous part once the entry was found:
\* sessions.delete(sessionId), then ctx.transport.close() is called
teardownBody(st, sid) ==
  [sessions |-> st.sessions \ {sid},
   ctx |-> [st.ctx EXCEPT ![sid].stage = "closing",
                          ![sid].bodyRuns = Bump(@),
                          ![sid].closeCalls = Bump(@)]]

\* transport.onclose: cleanupSession(transport.sessionId, "transport
\* closed"), as far as it runs inside transport.close()
onclose(st, sid) ==
  IF ~cleanupNeeded(st.sessions, sid) THEN st ELSE teardownBody(st, sid)

\* cleanupSession(sessionId, reason) up to its first await, on the pair
\* st = [sessions, ctx].  The transport's close() calls transport.onclose
\* before it returns its promise.
cleanupSession(st, sid) ==
  IF ~cleanupNeeded(st.sessions, sid) THEN st
  ELSE onclose(teardownBody(st, sid), sid)

store == [sessions |-> sessions, ctx |-> ctx]

\* whether this call of cleanupSession(sid) runs the teardown (its caller
\* then waits for the two awaits of the teardown)
runsTeardown(sid) == cleanupSession(store, sid) # store

\* the rest of a teardown, one await at a time: after transport.close()
\* resolves ctx.shutdown() is called, after that resolves the teardown
\* returns to whoever awaits it.  The same two steps finish the teardown
\* of a failed initialize that never got a session id.
CleanupResume(k) ==
  /\ k \in 1..Len(ctx)
  /\ \/ /\ ctx[k].stage = "closing"
        /\ ctx' = [ctx EXCEPT ![k].stage = "shutting",
                              ![k].shutCalls = Bump(@)]
     \/ /\ ctx[k].stage = "shutting"
        /\ ctx' = [ctx EXCEPT ![k].stage = "done"]
  /\ UNCHANGED <<cfg, sessions, reqs, resp, now, nextGc, gcArmed,
                 closeSt, closeQueue, closeWait, startup, procVars, catVars, polVars, rlVars>>

(* --------------------------- the handler ------------------------------ *)
\* a request being handled: what the handler still reads of it, the await
\* it is suspended at, and the ctx it was bound to (k)
NoReq == [pc |-> "none", path |-> "", sid |-> NoSid, auth |-> "",
          method |-> "", k |-> 0]

\* the handler's verdict on a request: the status it answers with, the
\* statement that answers and the WWW-Authenticate header it sets (<<>>:
\* none); Pass when the request goes on
Verdict(status, at) == [status |-> status, at |-> at, hdr |-> <<>>]

\* a faulty challenge that never advertises the resource-metadata URL
challengeBare == <<"Bearer">>

\* the value unauthorizedChallenge gives the WWW-Authenticate header, as the
\* sequence of its parts: `Bearer`, or `Bearer resource_metadata="<url>"`
challenge ==
  IF cfg.oauthResourceMetadataUrl # ""
  THEN <<"Bearer", "resource_metadata", cfg.oauthResourceMetadataUrl>>
  ELSE <<"Bearer">>

\* res.setHeader("WWW-Authenticate", challenge); sendText(res, 401, ...)
Unauthorized(at) == [status |-> 401, at |-> at, hdr |-> challenge]

Pass == Verdict(0, "none")

\* the last response written: its status, the statement that wrote it, and
\* the path and session id of the request it answers
NoResp == [status |-> 0, at |-> "none", hdr |-> <<>>, path |-> "",
           sid |-> NoSid]

\* request `old` (NoReq: the arriving one) is suspended as `new`
Suspend(old, new) ==
  reqs' = IF old = NoReq THEN reqs (+) SetToBag({new})
          ELSE (reqs (-) SetToBag({old})) (+) SetToBag({new})

\* request r is answered; `old` is its suspended form (NoReq: r has just
\* arrived)
Respond(old, r, v) ==
  /\ reqs' = IF old = NoReq THEN reqs ELSE reqs (-) SetToBag({old})
  /\ resp' = [status |-> v.status, at |-> v.at, hdr |-> v.hdr,
              path |-> r.path, sid |-> r.sid]

\* the request path is the configured protected-resource-metadata path
atMetadataPath(r) ==
  cfg.oauthProtectedResourcePath # "" /\ r.path = cfg.oauthProtectedResourcePath

\* handler, from the metadata path to the session-less authentication: the
\* response it writes, or Pass when the request goes on
Gate(r) ==
  IF atMetadataPath(r)
  THEN IF r.method # "GET" THEN Verdict(405, "metadata")
                           ELSE Verdict(200, "metadata")
  ELSE IF endpointKindOf(r) = "none" THEN Verdict(404, "path")
  ELSE IF rejectIfOriginNotAllowed(r) THEN Verdict(403, "origin")
  ELSE IF rejectIfHostNotAllowed(r) THEN Verdict(403, "host")
  ELSE IF r.sid = NoSid
          /\ unauthorizedChallenge(r, authTokenForEndpoint(endpointKindOf(r)))
       THEN Unauthorized("auth")
  ELSE Pass

\* a faulty capacity test that admits one session too many
atCapacityOffByOne(S) == Cardinality(S) > cfg.maxSessions

\* sessions.size >= maxSessions
atCapacity(S) == Cardinality(S) >= cfg.maxSessions

\* ctx.lastActivityAt = Date.now()
touch(c, t) == [c EXCEPT !.lastActivityAt = t]

\* the ctx object of a new session (actAt is a history variable: the time
\* of the session's last request or onActivity callback)
newCtx(kind, token) ==
  [endpointKind |-> kind, authToken |-> token, lastActivityAt |-> now,
   sid |-> NoSid, stage |-> "live", bodyRuns |-> 0, closeCalls |-> 0,
   shutCalls |-> 0, actAt |-> now]

\* a faulty session lookup that does not compare the endpoint
SessionVerdictAnyEndpoint(q) ==
  IF q.sid \notin sessions THEN Verdict(404, "unknown")
  ELSE IF unauthorizedChallenge(q, ctx[q.sid].authToken)
       THEN Unauthorized("sessauth")
  ELSE Pass

\* the session lookup of a request that presents session id q.sid: the
\* response written, or Pass when the request is handed to the transport
SessionVerdict(q) ==
  IF q.sid \notin sessions THEN Verdict(404, "unknown")
  ELSE IF ctx[q.sid].endpointKind # endpointKindOf(q)
       THEN Verdict(404, "endpoint")
  ELSE IF unauthorizedChallenge(q, ctx[q.sid].authToken)
       THEN Unauthorized("sessauth")
  ELSE Pass

\* a faulty check that admits every POST without session id
InitVerdictAnyPost(q, body) ==
  IF q.method # "POST" THEN Verdict(400, "noinit")
  ELSE IF atCapacity(sessions) THEN Verdict(503, "capacity")
  ELSE Pass

\* the checks on a request without session id: the response written, or
\* Pass when a session is constructed for it
InitVerdict(q, body) ==
  IF q.method # "POST" \/ body # "initialize"
  THEN Verdict(400, "noinit")
  ELSE IF atCapacity(sessions) THEN Verdict(503, "capacity")
  ELSE Pass

\* handler, from `if (sessionId)` to the next await, for request q with
\* parsed body `body` ("none" when the method is not POST); `old` is the
\* suspended request that resumes (NoReq: q has just arrived); the model
\* follows at most `lim` session constructions
Dispatch(old, q, body, lim) ==
  IF q.sid # NoSid THEN
    IF SessionVerdict(q) # Pass THEN
      /\ Respond(old, q, SessionVerdict(q))
      /\ UNCHANGED <<sessions, ctx>>
    ELSE
      /\ ctx' = [ctx EXCEPT ![q.sid] = [touch(@, now) EXCEPT !.actAt = now]]
      /\ Suspend(old, [q EXCEPT !.pc = "xport", !.k = q.sid])
      /\ UNCHANGED <<sessions, resp>>
  ELSE IF InitVerdict(q, body) # Pass THEN
    /\ Respond(old, q, InitVerdict(q, body))
    /\ UNCHANGED <<sessions, ctx>>
  ELSE
    /\ Len(ctx) < lim
    /\ ctx' = Append(ctx, newCtx(endpointKindOf(q),
                                 authTokenForEndpoint(endpointKindOf(q))))
    /\ Suspend(old, [q EXCEPT !.pc = "connect", !.k = Len(ctx) + 1])
    /\ UNCHANGED <<sessions, resp>>

\* the server accepts connections until close() calls server.close()
listening == startup = "listening" /\ closeSt \in {"idle", "sweep"}

\* the part of request r the handler reads after the gate
Held(r) == [NoReq EXCEPT !.path = r.path, !.sid = r.sid,
                         !.auth = r.auth, !.method = r.method]

httpFrame == <<cfg, now, nextGc, gcArmed, closeSt, closeQueue, closeWait,
               startup, procVars, catVars, polVars, rlVars>>

\* a request arrives while fewer than `open` are being handled: the handler
\* runs to its first await (readJsonBody for a POST, else the transport's
\* handleRequest) or to its response
Arrive(r, open) ==
  /\ listening
  /\ BagCardinality(reqs) < open
  /\ IF Gate(r) # Pass THEN
       Respond(NoReq, r, Gate(r)) /\ UNCHANGED <<sessions, ctx>>
     ELSE IF r.method = "POST" THEN
       /\ Suspend(NoReq, [Held(r) EXCEPT !.pc = "body"])
       /\ UNCHANGED <<sessions, ctx, resp>>
     ELSE Dispatch(NoReq, Held(r), "none", 0)
  /\ UNCHANGED httpFrame

\* readJsonBody settles: with the parsed body, or rejecting (too large, not
\* JSON), which is answered 400
BodyRead(q, b, lim) ==
  /\ q.pc = "body"
  /\ IF b = "invalid" THEN
       Respond(q, q, Verdict(400, "body")) /\ UNCHANGED <<sessions, ctx>>
     ELSE Dispatch(q, q, b, lim)
  /\ UNCHANGED httpFrame

\* onsessioninitialized: (sid) => { sessions.set(sid, ctx) }
onsessioninitialized(S, sid) == S \cup {sid}

\* `await mcpServer.connect(transport)` settles and, when it resolved,
\* transport.handleRequest takes the initialize request: the transport
\* draws the session id (randomUUID: fresh, the model uses k) and calls
\* onsessioninitialized ("ok"), or answers with a protocol error of its own
\* and assigns no session id ("reject").  A throw before a session id
\* exists takes the catch block's else branch: transport.close(), then
\* ctx.shutdown().
Connected(q, out) ==
  /\ q.pc = "connect"
  /\ CASE out = "ok" ->
            /\ sessions' = onsessioninitialized(sessions, q.k)
            /\ ctx' = [ctx EXCEPT ![q.k].sid = q.k]
            /\ Suspend(q, [q EXCEPT !.pc = "inith"])
            /\ UNCHANGED resp
       [] out = "reject" ->
            Respond(q, q, Verdict(406, "sdk")) /\ UNCHANGED <<sessions, ctx>>
       [] out = "throw" ->
            /\ ctx' = [ctx EXCEPT ![q.k].stage = "closing",
                                  ![q.k].closeCalls = Bump(@)]
            /\ Suspend(q, [q EXCEPT !.pc = "failing"])
            /\ UNCHANGED <<sessions, resp>>
  /\ UNCHANGED httpFrame

\* transport.handleRequest of the initialize request settles: resolved, or
\* thrown after the session id was assigned (catch: cleanupSession(sid,
\* "initialize failed"), awaited, then the error is rethrown -> 500)
InitDone(q, out) ==
  /\ q.pc = "inith"
  /\ IF out = "ok" THEN
       Respond(q, q, Verdict(200, "sdk")) /\ UNCHANGED <<sessions, ctx>>
     ELSE
       /\ sessions' = cleanupSession(store, q.k).sessions
       /\ ctx' = cleanupSession(store, q.k).ctx
       /\ IF runsTeardown(q.k)
          THEN Suspend(q, [q EXCEPT !.pc = "failing"]) /\ UNCHANGED resp
          ELSE Respond(q, q, Verdict(500, "error"))
  /\ UNCHANGED httpFrame

\* ctx.transport.handleRequest of a request addressed to a session settles.
\* For a DELETE the transport calls onsessionclosed (cleanupSession(sid,
\* "DELETE")), awaits it, and answers 200.
XportDone(q, out) ==
  /\ q.pc = "xport"
  /\ IF out = "throw" THEN
       Respond(q, q, Verdict(500, "error")) /\ UNCHANGED <<sessions, ctx>>
     ELSE IF q.method # "DELETE" THEN
       Respond(q, q, Verdict(200, "sdk")) /\ UNCHANGED <<sessions, ctx>>
     ELSE
       /\ sessions' = cleanupSession(store, q.k).sessions
       /\ ctx' = cleanupSession(store, q.k).ctx
       /\ IF runsTeardown(q.k)
          THEN Suspend(q, [q EXCEPT !.pc = "deleting"]) /\ UNCHANGED resp
          ELSE Respond(q, q, Verdict(200, "sdk"))
  /\ UNCHANGED httpFrame

\* the teardown a request awaits has returned: the DELETE is answered 200,
\* the failed initialize 500
AwaitDone(q) ==
  /\ q.pc \in {"deleting", "failing"}
  /\ ctx[q.k].stage = "done"
  /\ IF q.pc = "deleting" THEN Respond(q, q, Verdict(200, "sdk"))
                          ELSE Respond(q, q, Verdict(500, "error"))
  /\ UNCHANGED <<sessions, ctx>>
  /\ UNCHANGED httpFrame

\* transport.onclose fires for a transport that closed by itself
TransportClosed(k) ==
  /\ k \in sessions
  /\ sessions' = onclose(store, k).sessions
  /\ ctx' = onclose(store, k).ctx
  /\ UNCHANGED <<reqs, resp>>
  /\ UNCHANGED httpFrame

\* the Session Core reports activity (onActivity) while it serves a request
OnActivity(q) ==
  /\ q.pc = "xport"
  /\ ctx[q.k].lastActivityAt < now
  /\ ctx' = [ctx EXCEPT ![q.k] = [touch(@, now) EXCEPT !.actAt = now]]
  /\ UNCHANGED <<sessions, reqs, resp>>
  /\ UNCHANGED httpFrame

\* res "close" with the response unfinished: the client went away
ResClose(q) ==
  /\ q.pc = "xport"
  /\ ctx[q.k].lastActivityAt < now
  /\ ctx' = [ctx EXCEPT ![q.k] = touch(@, now)]
  /\ UNCHANGED <<sessions, reqs, resp>>
  /\ UNCHANGED httpFrame

(* ------------------------------ idle GC ------------------------------- *)
\* a faulty idle test that reaps whatever was not active this instant
idleExpiredAnyIdle(c, t) == t - c.lastActivityAt > 0

\* now - ctx.lastActivityAt >= idleTimeoutMs
idleExpired(c, t) == t - c.lastActivityAt >= cfg.idleTimeoutMs

RECURSIVE cleanupAll(_, _)
cleanupAll(st, V) ==
  IF V = {} THEN st
  ELSE LET s == CHOOSE x \in V : TRUE
       IN cleanupAll(cleanupSession(st, s), V \ {s})

\* one run of the setInterval callback
GcSweep ==
  /\ gcArmed
  /\ now = nextGc
  /\ LET st == cleanupAll(store, {sid \in sessions : idleExpired(ctx[sid], now)})
     IN sessions' = st.sessions /\ ctx' = st.ctx
  /\ nextGc' = nextGc + tickMs(cfg.idleTimeoutMs)
  /\ UNCHANGED <<cfg, reqs, resp, now, gcArmed, closeSt, closeQueue,
                 closeWait, startup, procVars, catVars, polVars, rlVars>>

\* the clock moves by d, within the first `ticks` GC periods; a due timer
\* fires before the clock passes it
AdvanceTime(d, ticks) ==
  /\ d > 0
  /\ now + d <= ticks * tickMs(cfg.idleTimeoutMs)
  /\ gcArmed => now + d <= nextGc
  /\ now' = now + d
  /\ UNCHANGED <<cfg, sessions, ctx, reqs, resp, nextGc, gcArmed,
                 closeSt, closeQueue, closeWait, startup, procVars, catVars, polVars, rlVars>>

(* ------------------------------ close() ------------------------------- *)
\* close(): clearInterval, the snapshot of the keys, and the loop up to
\* its first await; with no session the listener is closed at once
CloseStart ==
  /\ closeSt = "idle"
  /\ gcArmed' = FALSE
  /\ IF sessions = {} THEN
       /\ closeSt' = "listener"
       /\ UNCHANGED <<sessions, ctx, closeQueue, closeWait>>
     ELSE
       \E sid \in sessions :
         /\ sessions' = cleanupSession(store, sid).sessions
         /\ ctx' = cleanupSession(store, sid).ctx
         /\ closeQueue' = sessions \ {sid}
         /\ closeWait' = sid
         /\ closeSt' = "sweep"
  /\ UNCHANGED <<cfg, reqs, resp, now, nextGc, startup, procVars, catVars, polVars, rlVars>>

\* the awaited cleanupSession returned: the loop goes on to the next key
\* of the snapshot, or to server.close()
CloseNext ==
  /\ closeSt = "sweep"
  /\ IF closeWait = 0 THEN TRUE ELSE ctx[closeWait].stage = "done"
  /\ IF closeQueue = {} THEN
       /\ closeSt' = "listener"
       /\ closeWait' = 0
       /\ UNCHANGED <<sessions, ctx, closeQueue>>
     ELSE
       \E sid \in closeQueue :
         /\ sessions' = cleanupSession(store, sid).sessions
         /\ ctx' = cleanupSession(store, sid).ctx
         /\ closeQueue' = closeQueue \ {sid}
         /\ closeWait' = IF runsTeardown(sid) THEN sid ELSE 0
         /\ UNCHANGED closeSt
  /\ UNCHANGED <<cfg, reqs, resp, now, nextGc, gcArmed, startup,
                 procVars, catVars, polVars, rlVars>>

\* server.close(cb): cb runs when the last connection has ended
ListenerClosed ==
  /\ closeSt = "listener"
  /\ reqs = EmptyBag
  /\ closeSt' = "done"
  /\ UNCHANGED <<cfg, sessions, ctx, reqs, resp, now, nextGc, gcArmed,
                 closeQueue, closeWait, startup, procVars, catVars, polVars, rlVars>>

(* ------------------------------ startup ------------------------------- *)
\* isLocalBindHost(host)
isLocalBindHost(host) ==
  Lower(host) \in {"127.0.0.1", "localhost", "::1", "[::1]"}

\* a faulty test that takes every bind host for a local one
isPublicBindNever(c) == FALSE

\* const isPublicBind = !isLocalBindHost(host)
isPublicBind(c) == ~isLocalBindHost(c.host)

\* the error messages startHttpMcpServer throws (the parts the model tells
\* them apart by)
CutoverTokenRequired == "'oauthCutoverToken' (or --http-auth-token) is required"
RefusingPublicBind == "Refusing to start: no auth token is configured"

\* tlsKeyPath && tlsCertPath ? "https" : "http"
scheme(c) == IF c.tlsKeyPath # "" /\ c.tlsCertPath # "" THEN "https" ELSE "http"

\* startHttpMcpServer from its first statement to `server.listen(...)`: the
\* checks on the options, each throwing its error, then the creation of
\* the server.  runHttp does not catch: main().catch logs the error and
\* calls process.exit(1).
StartServer ==
  /\ startup = "starting"
  /\ IF ~StartupOk(cfg) THEN
       startup' = CutoverTokenRequired /\ procSt' = "exited" /\ exitCode' = 1
     ELSE IF isPublicBind(cfg) /\ cfg.requireAuthOnPublicBind
             /\ cfg.authToken = "" THEN
       startup' = RefusingPublicBind /\ procSt' = "exited" /\ exitCode' = 1
     ELSE
       startup' = "binding" /\ UNCHANGED <<procSt, exitCode>>
  /\ UNCHANGED <<cfg, sessions, ctx, reqs, resp, now, nextGc, gcArmed,
                 closeSt, closeQueue, closeWait, mode, shuttingDown,
                 forceExit, fired, routed, routineRuns, catVars, polVars, rlVars>>

\* the callback of server.listen runs: the promise resolves and
\* startHttpMcpServer returns
Bound ==
  /\ startup = "binding"
  /\ startup' = "listening"
  /\ UNCHANGED <<cfg, sessions, ctx, reqs, resp, now, nextGc, gcArmed,
                 closeSt, closeQueue, closeWait, procVars, catVars, polVars, rlVars>>

\* the outcome of a listen that fails (the port is in use, the address is
\* not available): the server emits 'error', the handler registered with
\* server.on("error") logs it, the callback of server.listen never runs,
\* and the promise startHttpMcpServer awaits stays pending
BindError == "HTTP server error: listen EADDRINUSE"

BindFailed ==
  /\ startup = "binding"
  /\ startup' = BindError
  /\ UNCHANGED <<cfg, sessions, ctx, reqs, resp, now, nextGc, gcArmed,
                 closeSt, closeQueue, closeWait, procVars, catVars, polVars, rlVars>>

\* after a failed listen nothing keeps the event loop of the process
\* alive (no listening socket, the idle-GC interval is unref'ed, runHttp
\* has not yet registered anything): the process ends with exit code 0,
\* and main().catch never runs
EventLoopEmpty ==
  /\ startup = BindError
  /\ procSt = "running"
  /\ procSt' = "exited"
  /\ exitCode' = 0
  /\ UNCHANGED <<httpVars, catVars, polVars, rlVars, mode, shuttingDown,
                 forceExit, fired, routed, routineRuns>>

(* ---------------------- process-level shutdown ----------------------- *)
Signals == {"SIGINT", "SIGTERM", "SIGHUP"}
UncaughtErrors == {"uncaughtException", "unhandledRejection"}
StdinEvents == {"stdin ended", "stdin closed"}

\* what can ask the process to stop, per transport mode
Triggers(m) ==
  Signals \cup UncaughtErrors
    \cup (IF m = "stdio" THEN StdinEvents \cup {"idle timeout"} ELSE {})

\* the triggers runStdio / runHttp register a handler for
Registered(m) ==
  IF m = "stdio"
  THEN Signals \cup UncaughtErrors \cup StdinEvents \cup {"idle timeout"}
  ELSE Signals

\* the exitCode argument the handler of trigger t passes (default 0)
exitCodeOf(t) ==
  CASE t = "SIGINT" -> 130
    [] t = "SIGTERM" -> 143
    [] t = "SIGHUP" -> 129
    [] t \in UncaughtErrors -> 1
    [] OTHER -> 0

\* closeAll(reason, exitCode) of runStdio, up to `await transport.close()`
closeAll(t) ==
  IF shuttingDown THEN UNCHANGED <<shuttingDown, procSt, exitCode, forceExit,
                                   routineRuns>>
  ELSE /\ shuttingDown' = TRUE
       /\ forceExit' = "armed"
       /\ exitCode' = exitCodeOf(t)
       /\ routineRuns' = Bump(routineRuns)
       /\ procSt' = "transport.close"

\* shutdownHttp(reason, exitCode) of runHttp, up to `await close()`
shutdownHttp(t) ==
  IF shuttingDown THEN UNCHANGED <<shuttingDown, procSt, exitCode, forceExit,
                                   routineRuns>>
  ELSE /\ shuttingDown' = TRUE
       /\ exitCode' = exitCodeOf(t)
       /\ routineRuns' = Bump(routineRuns)
       /\ procSt' = "close"
       /\ UNCHANGED forceExit

\* trigger t occurs.  With a registered handler the handler runs; an
\* uncaught error without handler ends the process at once with code 1
\* (the runtime's default), the shutdown routine not being called.
Trigger(t) ==
  /\ procSt # "exited"
  /\ t \in Triggers(mode)
  /\ fired' = fired \cup {t}
  /\ IF t \in Registered(mode) THEN
       /\ routed' = routed \cup {t}
       /\ IF mode = "stdio" THEN closeAll(t) ELSE shutdownHttp(t)
     ELSE
       /\ procSt' = "exited"
       /\ exitCode' = exitCodeOf(t)
       /\ UNCHANGED <<routed, shuttingDown, forceExit, routineRuns>>
  /\ UNCHANGED <<httpVars, catVars, polVars, rlVars, mode>>

\* the promise the shutdown routine awaits settles (resolved or rejected:
\* each await is in a try/catch that ignores the error).  closeAll goes on
\* from transport.close() to shutdown(), and from there to clearTimeout and
\* process.exit; shutdownHttp goes from close() to process.exit.
AwaitSettles ==
  /\ procSt \in {"transport.close", "shutdown", "close"}
  /\ IF procSt = "transport.close"
     THEN procSt' = "shutdown" /\ UNCHANGED forceExit
     ELSE /\ procSt' = "exited"
          /\ forceExit' = IF procSt = "shutdown" THEN "cleared" ELSE forceExit
  /\ UNCHANGED <<httpVars, catVars, polVars, rlVars, mode, shuttingDown, exitCode, fired,
                 routed, routineRuns>>

\* the forceExit timer of closeAll fires: process.exit(exitCode)
ForceExitFires ==
  /\ forceExit = "armed"
  /\ procSt # "exited"
  /\ forceExit' = "fired"
  /\ procSt' = "exited"
  /\ UNCHANGED <<httpVars, catVars, polVars, rlVars, mode, shuttingDown, exitCode, fired,
                 routed, routineRuns>>

(* ---------------------------- tool catalog ---------------------------- *)
BOOTSTRAP_TOOL_NAMES ==
  {"github_tool_groups_list", "github_tool_groups_load",
   "github_tool_catalog_search"}

\* TOOL_GROUPS: the tool names of each group (three of the eight groups)
TOOL_GROUPS ==
  [g \in {"core", "search", "rest"} |->
     CASE g = "core" -> {"github_repo_info", "github_list_contents",
                         "github_get_file_content", "github_get_readme"}
       [] g = "search" -> {"github_search_code", "github_search_repos",
                           "github_search_issues"}
       [] g = "rest" -> {"github_rest_get", "github_rest_mutate"}]

\* property names every object literal inherits from Object.prototype
ObjectPrototypeKeys == {"constructor"}

\* the keys of ALL_TOOLS_BY_NAME: the names of TOOL_DEFS
ALL_TOOLS_BY_NAME ==
  BOOTSTRAP_TOOL_NAMES \cup UNION {TOOL_GROUPS[g] : g \in DOMAIN TOOL_GROUPS}

\* TOOL_GROUPS[groupId] is truthy: an own entry, or an inherited property
\* (TOOL_GROUPS["constructor"] is the function Object)
groupFoundNever(groupId) == FALSE

groupFound(groupId) ==
  groupId \in DOMAIN TOOL_GROUPS \/ groupId \in ObjectPrototypeKeys

\* what a handler yields: the names it returns, or the TypeError it throws
Names(S) == [ok |-> TRUE, tools |-> S]
TypeError == [ok |-> FALSE, tools |-> {}]
NoList == [ok |-> TRUE, tools |-> {}, array |-> <<>>]

\* getListedToolNames(): in lazy mode the bootstrap names and, for every
\* loaded group that TOOL_GROUPS finds, the names of group.toolNames; for
\* an inherited property group.toolNames is undefined and `for ... of`
\* throws a TypeError
listedToolNamesOf(loaded) ==
  IF TOOL_MODE # "lazy" THEN Names(ALL_TOOLS_BY_NAME)
  ELSE IF \E g \in loaded : g \in ObjectPrototypeKeys THEN TypeError
  ELSE Names(BOOTSTRAP_TOOL_NAMES
               \cup UNION {TOOL_GROUPS[g] :
                             g \in loaded \cap DOMAIN TOOL_GROUPS})

getListedToolNames == listedToolNamesOf(loadedGroups)

\* getListedTools(): the listed names that ALL_TOOLS_BY_NAME knows
listedToolsOf(loaded) ==
  IF listedToolNamesOf(loaded).ok
  THEN Names(listedToolNamesOf(loaded).tools \cap ALL_TOOLS_BY_NAME)
  ELSE TypeError

getListedTools == listedToolsOf(loadedGroups)

\* the arrays and keys of the source in the order they are written:
\* BOOTSTRAP_TOOL_NAMES, group.toolNames, the keys of ALL_TOOLS_BY_NAME
bootstrapToolNames ==
  <<"github_tool_groups_list", "github_tool_groups_load",
    "github_tool_catalog_search">>

toolNames(g) ==
  CASE g = "core" -> <<"github_repo_info", "github_list_contents",
                       "github_get_file_content", "github_get_readme">>
    [] g = "search" -> <<"github_search_code", "github_search_repos",
                         "github_search_issues">>
    [] g = "rest" -> <<"github_rest_get", "github_rest_mutate">>
    [] OTHER -> <<>>

allToolKeys ==
  bootstrapToolNames \o toolNames("core") \o toolNames("search")
    \o toolNames("rest")

Range(seq) == {seq[k] : k \in DOMAIN seq}

\* Set.prototype.add for each element of an array, on a Set given by its
\* elements in insertion order
RECURSIVE addAll(_, _)
addAll(out, arr) ==
  IF arr = <<>> THEN out
  ELSE addAll(IF Head(arr) \in Range(out) THEN out
              ELSE Append(out, Head(arr)), Tail(arr))

\* the names in the order of a.localeCompare(b)
namesByLocale ==
  <<"github_get_file_content", "github_get_readme", "github_list_contents",
    "github_repo_info", "github_rest_get", "github_rest_mutate",
    "github_search_code", "github_search_issues", "github_search_repos",
    "github_tool_catalog_search", "github_tool_groups_list",
    "github_tool_groups_load">>

localeCompare(a, b) ==
  (CHOOSE k \in DOMAIN namesByLocale : namesByLocale[k] = a)
    - (CHOOSE k \in DOMAIN namesByLocale : namesByLocale[k] = b)

\* tools.sort((a, b) => a.name.localeCompare(b.name)): a stable sort
RECURSIVE insertSorted(_, _)
insertSorted(sorted, name) ==
  IF sorted = <<>> THEN <<name>>
  ELSE IF localeCompare(name, Head(sorted)) < 0 THEN <<name>> \o sorted
  ELSE <<Head(sorted)>> \o insertSorted(Tail(sorted), name)

sortUnsorted(arr) == arr

RECURSIVE sortByName(_)
sortByName(arr) ==
  IF arr = <<>> THEN <<>>
  ELSE insertSorted(sortByName(SubSeq(arr, 1, Len(arr) - 1)), arr[Len(arr)])

\* the array getListedToolNames() returns for the loaded groups in their
\* insertion order (when it does not throw)
RECURSIVE addGroups(_, _)
addGroups(out, order) ==
  IF order = <<>> THEN out
  ELSE addGroups(addAll(out, toolNames(Head(order))), Tail(order))

listedNamesArray(order) ==
  IF TOOL_MODE # "lazy" THEN allToolKeys
  ELSE addGroups(addAll(<<>>, bootstrapToolNames), order)

\* the array getListedTools() returns: the listed names ALL_TOOLS_BY_NAME
\* knows, in the order of the names, then sorted
KnownTool(name) == name \in ALL_TOOLS_BY_NAME

listedToolsArray(order) ==
  sortByName(SelectSeq(addAll(<<>>, listedNamesArray(order)), KnownTool))

\* the arrays that hold the elements of S, without repetition
RECURSIVE Orders(_)
Orders(S) ==
  IF S = {} THEN {<<>>}
  ELSE UNION {{Append(o, x) : o \in Orders(S \ {x})} : x \in S}

\* ensureToolAccessible(toolName): "ok", "no" ({ok: false, groupId}), or
\* "throw" when getListedToolNames throws
toolAccessibleOf(loaded, toolName) ==
  IF TOOL_MODE # "lazy" THEN "ok"
  ELSE IF toolName \in BOOTSTRAP_TOOL_NAMES THEN "ok"
  ELSE IF ~listedToolNamesOf(loaded).ok THEN "throw"
  ELSE IF toolName \in listedToolNamesOf(loaded).tools THEN "ok"
  ELSE "no"

ensureToolAccessible(toolName) == toolAccessibleOf(loadedGroups, toolName)

\* --- rateLimitedRequest (githubServerFactory.js) ---
\* RATE_LIMIT_DELAY, and the wait of the 403/429 backoff (retry-after)
RATE_LIMIT_DELAY == 2
waitMs == 3

\* the calls that can be pending at once (from the Session Cores of one or
\* of several sessions: globalLastRequestTime is a variable of the module)
Callers == {"a", "b"}

\* the fetches followed, and how far the clock of the throttle runs
MaxSends == 4
MaxClock == 8

Waiting(pc, wake) == [pc |-> pc, wake |-> wake]
NotCalling == Waiting("idle", 0)

NoUpstream ==
  /\ globalLastRequestTime = 0
  /\ callers = [c \in Callers |-> NotCalling]
  /\ fetchedAt = <<>>

rlFrame == <<cfg, sessions, ctx, reqs, resp, nextGc, gcArmed, closeSt,
             closeQueue, closeWait, startup, procVars, catVars, polVars>>

\* globalLastRequestTime = Date.now(); ... fetch(url, finalOptions)
stampAndFetch(c, next) ==
  /\ globalLastRequestTime' = now
  /\ fetchedAt' = Append(fetchedAt, now)
  /\ callers' = [callers EXCEPT ![c] = Waiting(next, 0)]

\* a call of rateLimitedRequest up to its first await: the setTimeout of
\* the delay when the last stamp is less than RATE_LIMIT_DELAY old, else
\* the fetch
RateLimitedRequest(c) ==
  /\ callers[c].pc = "idle"
  /\ Len(fetchedAt) + Cardinality({d \in Callers : callers[d].pc = "delay"})
       < MaxSends
  /\ LET timeSinceLastRequest == now - globalLastRequestTime
     IN IF timeSinceLastRequest < RATE_LIMIT_DELAY
        THEN /\ callers' =
                  [callers EXCEPT ![c] =
                     Waiting("delay",
                             now + (RATE_LIMIT_DELAY - timeSinceLastRequest))]
             /\ UNCHANGED <<globalLastRequestTime, fetchedAt>>
        ELSE stampAndFetch(c, "fetch")
  /\ UNCHANGED <<now, rlFrame>>

\* the timer of the delay fires: the stamp and the fetch
DelayOver(c) ==
  /\ callers[c].pc = "delay"
  /\ now = callers[c].wake
  /\ stampAndFetch(c, "fetch")
  /\ UNCHANGED <<now, rlFrame>>

\* the fetch settles: with a 403/429 and x-ratelimit-remaining 0 the call
\* sleeps waitMs, else it returns the response
Fetched(c, limited) ==
  /\ callers[c].pc = "fetch"
  /\ callers' = [callers EXCEPT ![c] =
                   IF limited THEN Waiting("backoff", now + waitMs)
                   ELSE NotCalling]
  /\ UNCHANGED <<globalLastRequestTime, fetchedAt, now, rlFrame>>

\* the timer of the backoff fires: the stamp and the second fetch
BackoffOver(c) ==
  /\ callers[c].pc = "backoff"
  /\ now = callers[c].wake
  /\ Len(fetchedAt) < MaxSends + 1
  /\ stampAndFetch(c, "retry")
  /\ UNCHANGED <<now, rlFrame>>

\* the second fetch settles and its response is returned
Refetched(c) ==
  /\ callers[c].pc = "retry"
  /\ callers' = [callers EXCEPT ![c] = NotCalling]
  /\ UNCHANGED <<globalLastRequestTime, fetchedAt, now, rlFrame>>

\* a millisecond passes; a due timer fires before the clock passes it
ClockTick ==
  /\ now < MaxClock
  /\ \A c \in Callers :
       callers[c].pc \in {"delay", "backoff"} => callers[c].wake > now
  /\ now' = now + 1
  /\ UNCHANGED <<rlVars, rlFrame>>

\* --- src/idleTimeoutPolicy.js ---
\* a value of --idle-timeout-ms or of MCP_IDLE_TIMEOUT_MS: "undefined"
\* stands for undefined, the others for the string (or the number whose
\* String() it is)
Undefined == "undefined"

\* Number.parseInt(String(value), 10) on the values the model uses, {} for
\* NaN
parseInt10(value) ==
  CASE value = "0" -> {0}
    [] value = "777" -> {777}
    [] value = "12345" -> {12345}
    [] value = "12abc" -> {12}
    [] value = "-5" -> {0 - 5}
    [] OTHER -> {}

\* parseNonNegativeInt(value): {n}, or {} for null
parseNonNegativeInt(value) ==
  IF value = Undefined \/ value = "" THEN {}
  ELSE {n \in parseInt10(value) : n >= 0}

\* a ?? b
Coalesce(a, b) == IF a = {} THEN b ELSE CHOOSE n \in a : TRUE

defaultMs == 300000

\* resolveIdleTimeoutMs({ transport, cliProvided, cliValue, env })
resolveIdleTimeoutMs(transport, cliProvided, cliValue, envValue) ==
  IF cliProvided THEN Coalesce(parseNonNegativeInt(cliValue), defaultMs)
  ELSE Coalesce(parseNonNegativeInt(envValue), defaultMs)

\* the call of resolveIdleTimeoutMs at startup: its arguments and what it
\* returned ({} before the call)
IdleCall(transport, cliProvided, cliValue, envValue, resolved) ==
  [transport |-> transport, cliProvided |-> cliProvided,
   cliValue |-> cliValue, envValue |-> envValue, resolved |-> resolved]

NotResolved == IdleCall("stdio", FALSE, Undefined, Undefined, {})

\* IDLE_TIMEOUT_MS = resolveIdleTimeoutMs({...})
ResolveIdleTimeout ==
  /\ idleTimeout.resolved = {}
  /\ idleTimeout' =
       [idleTimeout EXCEPT !.resolved =
          {resolveIdleTimeoutMs(idleTimeout.transport,
                                idleTimeout.cliProvided,
                                idleTimeout.cliValue,
                                idleTimeout.envValue)}]
  /\ UNCHANGED <<httpVars, procVars, catVars, rlVars>>

catFrame == <<httpVars, procVars, polVars, rlVars>>

\* the tools/list handler
ListTools ==
  /\ listed' = [ok |-> getListedTools.ok,
                tools |-> getListedTools.tools,
                array |-> IF getListedTools.ok
                          THEN listedToolsArray(loadOrder) ELSE <<>>]
  /\ UNCHANGED <<TOOL_MODE, toolOutput, toolOutputSchemaMode,
                 PRELOAD_GROUPS, loadedGroups, loadOrder, called, peers>>
  /\ UNCHANGED catFrame

\* TOOL_TO_GROUP.get(toolName): the first group that names the tool
\* ("undefined" when no group does)
TOOL_TO_GROUP(toolName) ==
  IF \E g \in DOMAIN TOOL_GROUPS : toolName \in TOOL_GROUPS[g]
  THEN CHOOSE g \in DOMAIN TOOL_GROUPS : toolName \in TOOL_GROUPS[g]
  ELSE "undefined"

\* toolResultFromJson(data, { isError }): the text content (the JSON text
\* of data, modelled by data itself), the structured content, and the flag
NoData == [absent |-> TRUE]

toolResultFromJson(data, isError) ==
  LET wantStructured ==
        ~isError /\ (toolOutput # "text" \/ toolOutputSchemaMode # "none")
      wantText ==
        \/ toolOutput = "text"
        \/ toolOutput = "both"
        \/ (toolOutputSchemaMode # "none" /\ toolOutput = "text")
  IN [content |-> IF wantText THEN <<data>> ELSE <<>>,
      structuredContent |-> IF wantStructured THEN data ELSE NoData,
      isError |-> isError]

\* toolError(message): { error: message }
toolError(message) == toolResultFromJson([error |-> message], TRUE)

\* toolError(message, { tool, required_group })
toolErrorGated(message, tool, groupId) ==
  toolResultFromJson([error |-> message, tool |-> tool,
                      required_group |-> groupId], TRUE)

\* String.prototype.trim on the group ids the model uses
trim(id) ==
  CASE id = " " -> ""
    [] id = " core " -> "core"
    [] OTHER -> id

\* the ids of args.groups the loop of github_tool_groups_load does not skip
\* (typeof id === "string" and id.trim() !== ""), trimmed
groupIdsRead(groups) == {trim(id) : id \in {x \in groups : trim(x) # ""}}

\* the loop of github_tool_groups_load over args.groups, on the loaded
\* groups of the Session Core that handles the call
loadedAfter(loaded, groups) ==
  IF TOOL_MODE = "lazy"
  THEN loaded \cup {g \in groupIdsRead(groups) : groupFound(g)}
  ELSE loaded

\* the arguments of a tools/call request: none at all (request.params has
\* no `arguments`), or an object with the properties the modelled tools read
NoArgs == [absent |-> TRUE]

\* the two tests of args.confirm in the case github_rest_mutate ("" stands
\* for a missing or empty value)
confirmGateTruthy(confirm) == IF confirm = "" THEN "required" ELSE "pass"

confirmGate(confirm) ==
  IF confirm = "" THEN "required"
  ELSE IF confirm # "CONFIRM_GITHUB_WRITE" THEN "refusing"
  ELSE "pass"

\* the query of github_tool_catalog_search in lower case
toLowerCase(query) == IF query = "REST" THEN "rest" ELSE query

\* the groups whose `${id} ${g.title} ${g.description}`, in lower case,
\* includes q, for the queries the model uses
groupsIncluding(q) ==
  CASE q = "tool" -> {"core", "search", "rest"}
    [] q = "repositor" -> {"core", "search"}
    [] q = "rest" -> {"rest"}
    [] OTHER -> {}

\* the `groups` of the result of github_tool_groups_list, by group id
groupsListed ==
  [g \in DOMAIN TOOL_GROUPS |->
     [loaded |-> IF TOOL_MODE = "lazy" THEN g \in loadedGroups ELSE TRUE,
      tool_count |-> Cardinality(TOOL_GROUPS[g])]]

\* the `groups` (groupMatches) of the result of
\* github_tool_catalog_search, by group id
groupMatches(query) ==
  [g \in groupsIncluding(toLowerCase(query)) |->
     [loaded |-> g \in loadedGroups]]

\* the last tools/call request and its answer: the request (name, args),
\* the statement that returned (out), whether the GitHub API was called
\* (upstream), what became of the call of server.sendToolListChanged()
\* (notified: "none" when it was not called, else "delivered" or "failed")
\* and the result
Answer(name, args, out, upstream, notified, result) ==
  [name |-> name, args |-> args, out |-> out, upstream |-> upstream,
   notified |-> notified, result |-> result]

NoCall == Answer("", NoArgs, "none", FALSE, "none", NoData)

\* the tools/call handler for tool `name` with arguments `args`, as far as
\* the catalog goes: the lookup in ALL_TOOLS_BY_NAME, the access check,
\* the bootstrap tools, the confirmation of github_rest_mutate; "sent"
\* tells whether server.sendToolListChanged() delivers the notification
\* (it throws when it does not, and the handler ignores that).  An
\* exception is caught and answered as a tool error.
CallTool(name, args, sent) ==
  /\ IF name \notin ALL_TOOLS_BY_NAME THEN
       /\ called' = Answer(name, args, "Unknown tool", FALSE, "none",
                           toolError("Unknown tool"))
       /\ UNCHANGED <<loadedGroups, loadOrder>>
     ELSE IF ensureToolAccessible(name) = "no" THEN
       /\ called' = Answer(name, args, "not currently available", FALSE, "none",
                           toolErrorGated("not currently available", name,
                             IF TOOL_TO_GROUP(name) = "undefined"
                             THEN "unknown" ELSE TOOL_TO_GROUP(name)))
       /\ UNCHANGED <<loadedGroups, loadOrder>>
     ELSE IF ensureToolAccessible(name) = "throw" THEN
       /\ called' = Answer(name, args, "TypeError", FALSE, "none",
                           toolError("undefined is not iterable"))
       /\ UNCHANGED <<loadedGroups, loadOrder>>
     ELSE IF args = NoArgs THEN
       /\ called' = Answer(name, args, "TypeError", FALSE, "none",
                           toolError("Cannot read properties of undefined"))
       /\ UNCHANGED <<loadedGroups, loadOrder>>
     ELSE IF name = "github_tool_groups_load" THEN
       IF args.groups = {} THEN
         /\ called' = Answer(name, args, "Parameter 'groups'", FALSE, "none",
                             toolError("Parameter 'groups'"))
         /\ UNCHANGED <<loadedGroups, loadOrder>>
       ELSE
         /\ loadedGroups' = loadedAfter(loadedGroups, args.groups)
         /\ \E arr \in Orders(loadedAfter({}, args.groups)) :
              loadOrder' = addAll(loadOrder, arr)
         /\ called' =
              Answer(name, args, "dispatched", FALSE,
                     IF sent THEN "delivered" ELSE "failed",
                     toolResultFromJson(
                       [loaded |-> {g \in groupIdsRead(args.groups) :
                                      groupFound(g)},
                        unknown |-> {g \in groupIdsRead(args.groups) :
                                       ~groupFound(g)}], FALSE))
     ELSE IF name = "github_tool_groups_list" THEN
       /\ called' = Answer(name, args, "dispatched", FALSE, "none",
                           toolResultFromJson([groups |-> groupsListed],
                                              FALSE))
       /\ UNCHANGED <<loadedGroups, loadOrder>>
     ELSE IF name = "github_tool_catalog_search" THEN
       /\ called' =
            IF args.query = ""
            THEN Answer(name, args, "Parameter 'query'", FALSE, "none",
                        toolError("Parameter 'query' is required."))
            ELSE Answer(name, args, "dispatched", FALSE, "none",
                        toolResultFromJson(
                          [groups |-> groupMatches(args.query)], FALSE))
       /\ UNCHANGED <<loadedGroups, loadOrder>>
     ELSE IF name = "github_rest_mutate" THEN
       /\ called' =
            IF confirmGate(args.confirm) = "required"
            THEN Answer(name, args, "Parameter 'confirm'", FALSE, "none",
                        toolError("Parameter 'confirm' is required."))
            ELSE IF confirmGate(args.confirm) = "refusing"
            THEN Answer(name, args, "Refusing", FALSE, "none",
                        toolError("Refusing to run github_rest_mutate"))
            ELSE Answer(name, args, "dispatched", TRUE, "none", NoData)
       /\ UNCHANGED <<loadedGroups, loadOrder>>
     ELSE
       /\ called' = Answer(name, args, "dispatched",
                           name \notin BOOTSTRAP_TOOL_NAMES, "none",
                           NoData)
       /\ UNCHANGED <<loadedGroups, loadOrder>>
  /\ UNCHANGED <<TOOL_MODE, toolOutput, toolOutputSchemaMode,
                 PRELOAD_GROUPS, listed, peers>>
  /\ UNCHANGED catFrame

\* the Session Cores of the other sessions of the HTTP server: the
\* loadedGroups of each (NoCore: the session has not been created)
Peers == {"B", "C"}
NoCore == {"<no Session Core>"}
NoPeers == [s \in Peers |-> NoCore]

\* createGithubServer: loadedGroups = new Set(preloadGroups)
newLoadedGroupsShared == loadedGroups

newLoadedGroups == PRELOAD_GROUPS

peerFrame == <<TOOL_MODE, toolOutput, toolOutputSchemaMode, PRELOAD_GROUPS,
               loadedGroups, loadOrder, listed, called>>

\* createServerForSession() for a new session s of the HTTP server
PeerCreate(s) ==
  /\ peers[s] = NoCore
  /\ peers' = [peers EXCEPT ![s] = newLoadedGroups]
  /\ UNCHANGED peerFrame
  /\ UNCHANGED catFrame

\* session s calls github_tool_groups_load with a non-empty args.groups
PeerLoad(s, groups) ==
  /\ peers[s] # NoCore
  /\ groups # {}
  /\ peers' = [peers EXCEPT ![s] = loadedAfter(peers[s], groups)]
  /\ UNCHANGED peerFrame
  /\ UNCHANGED catFrame

\* the catalog of a Session Core nothing is asked of
CatalogIdle ==
  /\ TOOL_MODE = "full"
  /\ toolOutput = "text"
  /\ toolOutputSchemaMode = "none"
  /\ PRELOAD_GROUPS = {}
  /\ loadedGroups = {}
  /\ loadOrder = <<>>
  /\ peers = NoPeers
  /\ listed = NoList
  /\ called = NoCall

(* --------------------------- specifications --------------------------- *)
Tokens == {"", "tp", "tc"}
Origins == {"", "https://app.example", "https://evil.example"}
Hosts == {"mcp.example", "evil.example"}
Bodies == {"initialize", "other", "invalid"}
IdleTimeouts == {2000}

\* configurations startHttpMcpServer accepts
Configs ==
  {c \in [authToken : {"", "tp"}, oauthCutoverToken : {"", "tc"},
          cutoverPath : BOOLEAN, maxSessions : {MaxInits},
          idleTimeoutMs : {0} \cup IdleTimeouts,
          allowedOrigins : {{}, {"https://app.example"}},
          allowedHosts : {{}, {"mcp.example"}},
          oauthResourceMetadataUrl : {""},
          oauthProtectedResourcePath : {""}] : StartupOk(c)}

\* an open primary endpoint without cutover path and without allow-lists
OpenConfigs ==
  {c \in Configs : /\ c.authToken = "" /\ c.oauthCutoverToken = ""
                   /\ ~c.cutoverPath
                   /\ c.allowedOrigins = {} /\ c.allowedHosts = {}}

\* session ids a client can present: none, one the server issued, or one
\* it never issued
KnownSids == {NoSid, NeverIssued} \cup {k \in 1..Len(ctx) : ctx[k].sid = k}

Requests ==
  [path : {"primary", "cutover", "other"}, sid : KnownSids, auth : Tokens,
   method : {"GET", "POST", "DELETE"}, origin : Origins, host : Hosts]

\* the requests of the clients of an open primary endpoint: initialize,
\* and streams and DELETEs on the sessions they were given
PlainRequests ==
  {r \in Requests : /\ r.path = "primary" /\ r.auth = "" /\ r.origin = ""
                    /\ r.host = "mcp.example" /\ r.sid # NeverIssued
                    /\ (r.sid = NoSid <=> r.method = "POST")}

InitWith(C) ==
  /\ cfg \in C
  /\ sessions = {}
  /\ ctx = <<>>
  /\ reqs = EmptyBag
  /\ resp = NoResp
  /\ now = 0
  /\ gcArmed = (cfg.idleTimeoutMs > 0)
  /\ nextGc = IF cfg.idleTimeoutMs > 0 THEN tickMs(cfg.idleTimeoutMs) ELSE 0
  /\ closeSt = "idle"
  /\ closeQueue = {}
  /\ closeWait = 0
  /\ startup = "listening"
  /\ CatalogIdle
  /\ mode = "http"
  /\ shuttingDown = FALSE
  /\ procSt = "running"
  /\ exitCode = 0
  /\ forceExit = "unset"
  /\ fired = {}
  /\ routed = {}
  /\ routineRuns = 0
  /\ idleTimeout = NotResolved
  /\ NoUpstream

InFlight == BagToSet(reqs)

\* Spec: one request at a time, of any shape, under every endpoint and
\* policy configuration; idle GC disabled (idleTimeoutMs = 0, the default)
Init ==
  InitWith({c \in Configs : /\ c.idleTimeoutMs = 0
                            /\ (c.allowedOrigins = {} <=> c.allowedHosts = {})
                            /\ (~c.cutoverPath => c.oauthCutoverToken = "")})

Next ==
  \/ \E r \in Requests : Arrive(r, 1)
  \/ \E q \in InFlight, b \in Bodies : BodyRead(q, b, MaxInits)
  \/ \E q \in InFlight, out \in {"ok", "reject"} : Connected(q, out)
  \/ \E q \in InFlight : InitDone(q, "ok")
  \/ \E q \in InFlight : XportDone(q, "ok")
  \/ \E q \in InFlight : AwaitDone(q)
  \/ \E k \in 1..MaxInits : CleanupResume(k)

Spec == Init /\ [][Next]_vars

\* SpecLife: the life of the sessions of an open primary endpoint, one
\* request at a time, with the clock, idle GC, every teardown trigger and
\* close()
InitLife == InitWith({c \in OpenConfigs : c.idleTimeoutMs > 0})

NextLife ==
  \/ \E r \in PlainRequests : Arrive(r, 1)
  \/ \E q \in InFlight : BodyRead(q, "initialize", MaxInits)
  \/ \E q \in InFlight : Connected(q, "ok")
  \/ \E q \in InFlight, out \in {"ok", "throw"} : InitDone(q, out)
  \/ \E q \in InFlight : XportDone(q, "ok")
  \/ \E q \in InFlight : AwaitDone(q)
  \/ \E k \in 1..MaxInits : CleanupResume(k)
  \/ \E k \in 1..MaxInits : TransportClosed(k)
  \/ \E q \in InFlight : OnActivity(q)
  \/ \E q \in InFlight : ResClose(q)
  \/ GcSweep
  \/ AdvanceTime(tickMs(cfg.idleTimeoutMs), MaxTicks)
  \/ CloseStart
  \/ CloseNext
  \/ ListenerClosed

SpecLife == InitLife /\ [][NextLife]_vars

\* SpecLate: SpecLife followed for one more GC period
NextLate ==
  \/ \E r \in PlainRequests : Arrive(r, 1)
  \/ \E q \in InFlight : BodyRead(q, "initialize", MaxInits)
  \/ \E q \in InFlight : Connected(q, "ok")
  \/ \E q \in InFlight, out \in {"ok", "throw"} : InitDone(q, out)
  \/ \E q \in InFlight : XportDone(q, "ok")
  \/ \E q \in InFlight : AwaitDone(q)
  \/ \E k \in 1..MaxInits : CleanupResume(k)
  \/ \E k \in 1..MaxInits : TransportClosed(k)
  \/ \E q \in InFlight : OnActivity(q)
  \/ \E q \in InFlight : ResClose(q)
  \/ GcSweep
  \/ AdvanceTime(tickMs(cfg.idleTimeoutMs), MaxTicks + 1)
  \/ CloseStart
  \/ CloseNext
  \/ ListenerClosed

SpecLate == InitLife /\ [][NextLate]_vars

\* SpecRace: initialize requests of several clients in flight at the same
\* time, on an open primary endpoint
MaxRacers == MaxInits + 1

InitRace == InitWith({c \in OpenConfigs : c.idleTimeoutMs = 0})

NextRace ==
  \/ \E r \in PlainRequests : Arrive(r, MaxRacers)
  \/ \E q \in InFlight : BodyRead(q, "initialize", MaxRacers)
  \/ \E q \in InFlight, out \in {"ok", "throw"} : Connected(q, out)
  \/ \E q \in InFlight : InitDone(q, "ok")
  \/ \E q \in InFlight, out \in {"ok", "throw"} : XportDone(q, out)
  \/ \E q \in InFlight : AwaitDone(q)
  \/ \E k \in 1..MaxRacers : CleanupResume(k)

SpecRace == InitRace /\ [][NextRace]_vars

\* SpecFail: initialize requests that fail before or after the session id
\* is assigned, one request at a time on an open primary endpoint, with
\* transports that close by themselves
NextFail ==
  \/ \E r \in PlainRequests : Arrive(r, 1)
  \/ \E q \in InFlight : BodyRead(q, "initialize", MaxRacers)
  \/ \E q \in InFlight, out \in {"ok", "throw"} : Connected(q, out)
  \/ \E q \in InFlight, out \in {"ok", "throw"} : InitDone(q, out)
  \/ \E q \in InFlight : XportDone(q, "ok")
  \/ \E q \in InFlight : AwaitDone(q)
  \/ \E k \in 1..MaxRacers : CleanupResume(k)
  \/ \E k \in 1..MaxRacers : TransportClosed(k)

SpecFail == InitRace /\ [][NextFail]_vars

\* SpecGate: session-less requests of every shape, one at a time, under
\* every endpoint, token, allow-list and OAuth-scaffold configuration (the
\* metadata path, when configured, is not the path of an endpoint); one
\* session is followed
MetadataUrls == {"", "https://as.example/meta"}
GateOrigins == Origins \cup {"HTTPS://APP.EXAMPLE"}
GateHosts == Hosts \cup {""}
Methods == {"GET", "POST", "DELETE", "PUT"}

GateConfigs ==
  {c \in [authToken : {"", "tp"}, oauthCutoverToken : {"", "tc"},
          cutoverPath : BOOLEAN, maxSessions : {MaxInits},
          idleTimeoutMs : {0},
          allowedOrigins : {{}, {"https://app.example"}},
          allowedHosts : {{}, {"mcp.example"}},
          oauthResourceMetadataUrl : MetadataUrls,
          oauthProtectedResourcePath : {"", "meta"}] :
     /\ StartupOk(c)
     /\ ~c.cutoverPath => c.oauthCutoverToken = ""
     /\ c.oauthResourceMetadataUrl = "" <=> c.oauthProtectedResourcePath = ""}

GateRequests ==
  [path : {"primary", "cutover", "other", "meta"}, sid : {NoSid},
   auth : Tokens, method : Methods, origin : GateOrigins, host : GateHosts]

InitGate == InitWith(GateConfigs)

NextGate ==
  \/ \E r \in GateRequests : Arrive(r, 1)
  \/ \E q \in InFlight, b \in Bodies : BodyRead(q, b, 1)
  \/ \E q \in InFlight, out \in {"ok", "reject"} : Connected(q, out)
  \/ \E q \in InFlight : InitDone(q, "ok")

SpecGate == InitGate /\ [][NextGate]_vars

\* SpecStart: startHttpMcpServer called with every combination of bind
\* host, tokens, cutover path, strict flag and TLS paths, followed by
\* session-less requests to the endpoints of the servers that started
BindHosts == {"127.0.0.1", "localhost", "LOCALHOST", "::1", "[::1]",
              "0.0.0.0", "192.0.2.7"}
TlsKeyPaths == {"", "key.pem"}
TlsCertPaths == {"", "cert.pem"}

StartOptions ==
  [authToken : {"", "tp"}, oauthCutoverToken : {"", "tc"},
   cutoverPath : BOOLEAN, maxSessions : {MaxInits}, idleTimeoutMs : {0},
   allowedOrigins : {{}}, allowedHosts : {{}},
   oauthResourceMetadataUrl : {""}, oauthProtectedResourcePath : {""},
   host : BindHosts, requireAuthOnPublicBind : BOOLEAN,
   tlsKeyPath : TlsKeyPaths, tlsCertPath : TlsCertPaths]

StartRequests ==
  [path : {"primary", "cutover"}, sid : {NoSid}, auth : Tokens,
   method : {"GET", "POST"}, origin : {""}, host : {"mcp.example"}]

InitStart ==
  /\ cfg \in StartOptions
  /\ startup = "starting"
  /\ CatalogIdle
  /\ sessions = {}
  /\ ctx = <<>>
  /\ reqs = EmptyBag
  /\ resp = NoResp
  /\ now = 0
  /\ gcArmed = FALSE
  /\ nextGc = 0
  /\ closeSt = "idle"
  /\ closeQueue = {}
  /\ closeWait = 0
  /\ mode = "http"
  /\ shuttingDown = FALSE
  /\ procSt = "running"
  /\ exitCode = 0
  /\ forceExit = "unset"
  /\ fired = {}
  /\ routed = {}
  /\ routineRuns = 0
  /\ idleTimeout = NotResolved
  /\ NoUpstream

NextStart ==
  \/ StartServer
  \/ Bound
  \/ \E r \in StartRequests : Arrive(r, 1)
  \/ \E q \in InFlight : BodyRead(q, "initialize", MaxInits)
  \/ \E q \in InFlight : Connected(q, "ok")
  \/ \E q \in InFlight : InitDone(q, "ok")

SpecStart == InitStart /\ [][NextStart]_vars

\* SpecCatalog: the tool catalog of one Session Core, in either tool mode
\* and with preloaded groups, under tools/list and tools/call requests
\* that name any tool and any groups
GroupIds == DOMAIN TOOL_GROUPS \cup ObjectPrototypeKeys \cup {"no_such_group"}

\* the arguments of the tools/call requests: for github_tool_groups_load
\* the ids of args.groups, among them a blank one and a padded one; for
\* github_rest_mutate the value of args.confirm ("": missing or empty)
RequestedIds == (GroupIds \ {"search"}) \cup {" ", " core "}
\* the values of args.query of github_tool_catalog_search ("": missing or
\* empty)
Queries == {"", "tool", "repositor", "REST", "zzz"}
Confirms == {"", "yes", "confirm_github_write", "CONFIRM_GITHUB_WRITE"}

\* the longest args.groups of the requests
MaxBatch == 2

ArgsFor(name) ==
  {NoArgs} \cup
  (CASE name = "github_tool_groups_load" ->
          [groups : {S \in SUBSET RequestedIds : Cardinality(S) <= MaxBatch},
           confirm : {""}]
     [] name = "github_rest_mutate" -> [groups : {{}}, confirm : Confirms]
     [] name = "github_tool_catalog_search" ->
          [groups : {{}}, confirm : {""}, query : Queries]
     [] OTHER -> [groups : {{}}, confirm : {""}])
ToolNames == ALL_TOOLS_BY_NAME \cup {"github_no_such_tool"}
PreloadGroups == {{}, {"core", "search"}, {"rest", "no_such_group"}}

InitCatalog ==
  /\ TOOL_MODE \in {"lazy", "full"}
  /\ toolOutput = "text"
  /\ toolOutputSchemaMode = "none"
  /\ PRELOAD_GROUPS \in PreloadGroups
  /\ loadedGroups = PRELOAD_GROUPS
  /\ loadOrder \in Orders(PRELOAD_GROUPS)
  /\ peers = NoPeers
  /\ listed = NoList
  /\ called = NoCall
  /\ cfg \in {c \in OpenConfigs : c.idleTimeoutMs = 0}
  /\ sessions = {}
  /\ ctx = <<>>
  /\ reqs = EmptyBag
  /\ resp = NoResp
  /\ now = 0
  /\ gcArmed = FALSE
  /\ nextGc = 0
  /\ closeSt = "idle"
  /\ closeQueue = {}
  /\ closeWait = 0
  /\ startup = "listening"
  /\ mode = "http"
  /\ shuttingDown = FALSE
  /\ procSt = "running"
  /\ exitCode = 0
  /\ forceExit = "unset"
  /\ fired = {}
  /\ routed = {}
  /\ routineRuns = 0
  /\ idleTimeout = NotResolved
  /\ NoUpstream

NextCatalog ==
  \/ ListTools
  \/ \E name \in ToolNames : \E args \in ArgsFor(name) :
       \E sent \in IF name = "github_tool_groups_load" THEN BOOLEAN
                    ELSE {TRUE} :
         CallTool(name, args, sent)

SpecCatalog == InitCatalog /\ [][NextCatalog]_vars

\* --- the results of tools/call under every output mode ---
ToolOutputs == {"text", "structured", "both"}
ToolOutputSchemaModes == {"none", "bootstrap", "all_loose"}

OutputArgs(name) ==
  {NoArgs} \cup
  (CASE name = "github_tool_groups_load" ->
          [groups : {{}, {"rest"}, {"no_such_group"}}, confirm : {""}]
     [] name = "github_rest_mutate" -> [groups : {{}}, confirm : Confirms]
     [] name = "github_tool_catalog_search" ->
          [groups : {{}}, confirm : {""}, query : Queries]
     [] OTHER -> [groups : {{}}, confirm : {""}])

InitOutput ==
  /\ TOOL_MODE \in {"lazy", "full"}
  /\ toolOutput \in ToolOutputs
  /\ toolOutputSchemaMode \in ToolOutputSchemaModes
  /\ PRELOAD_GROUPS \in {{}, {"core", "search"}}
  /\ loadedGroups = PRELOAD_GROUPS
  /\ loadOrder \in Orders(PRELOAD_GROUPS)
  /\ peers = NoPeers
  /\ listed = NoList
  /\ called = NoCall
  /\ cfg \in {c \in OpenConfigs : c.idleTimeoutMs = 0}
  /\ sessions = {}
  /\ ctx = <<>>
  /\ reqs = EmptyBag
  /\ resp = NoResp
  /\ now = 0
  /\ gcArmed = FALSE
  /\ nextGc = 0
  /\ closeSt = "idle"
  /\ closeQueue = {}
  /\ closeWait = 0
  /\ startup = "listening"
  /\ mode = "http"
  /\ shuttingDown = FALSE
  /\ procSt = "running"
  /\ exitCode = 0
  /\ forceExit = "unset"
  /\ fired = {}
  /\ routed = {}
  /\ routineRuns = 0
  /\ idleTimeout = NotResolved
  /\ NoUpstream

NextOutput ==
  \/ ListTools
  \/ \E name \in ToolNames : \E args \in OutputArgs(name) :
       CallTool(name, args, TRUE)

SpecOutput == InitOutput /\ [][NextOutput]_vars

\* --- the idle timeout resolved at startup, for every combination of
\* transport, command line and environment ---
Transports == {"stdio", "http"}
TimeoutValues == {Undefined, "", "0", "777", "12345", "12abc", "-5", "abc"}

InitIdle ==
  /\ TOOL_MODE = "full"
  /\ toolOutput = "text"
  /\ toolOutputSchemaMode = "none"
  /\ PRELOAD_GROUPS = {}
  /\ loadedGroups = PRELOAD_GROUPS
  /\ loadOrder \in Orders(PRELOAD_GROUPS)
  /\ peers = NoPeers
  /\ listed = NoList
  /\ called = NoCall
  /\ cfg \in {c \in OpenConfigs : c.idleTimeoutMs = 0}
  /\ sessions = {}
  /\ ctx = <<>>
  /\ reqs = EmptyBag
  /\ resp = NoResp
  /\ now = 0
  /\ gcArmed = FALSE
  /\ nextGc = 0
  /\ closeSt = "idle"
  /\ closeQueue = {}
  /\ closeWait = 0
  /\ startup = "listening"
  /\ mode = "http"
  /\ shuttingDown = FALSE
  /\ procSt = "running"
  /\ exitCode = 0
  /\ forceExit = "unset"
  /\ fired = {}
  /\ routed = {}
  /\ routineRuns = 0
  /\ idleTimeout \in {IdleCall(t, c, v, e, {}) :
                       t \in Transports, c \in BOOLEAN,
                       v \in TimeoutValues, e \in TimeoutValues}
  /\ NoUpstream

NextIdle == ResolveIdleTimeout

SpecIdle == InitIdle /\ [][NextIdle]_vars

\* --- the throttle of the upstream requests: calls of rateLimitedRequest
\* that overlap, from the first millisecond at which none has to wait ---
InitThrottle ==
  /\ TOOL_MODE = "full"
  /\ toolOutput = "text"
  /\ toolOutputSchemaMode = "none"
  /\ PRELOAD_GROUPS = {}
  /\ loadedGroups = PRELOAD_GROUPS
  /\ loadOrder \in Orders(PRELOAD_GROUPS)
  /\ peers = NoPeers
  /\ listed = NoList
  /\ called = NoCall
  /\ cfg \in {c \in OpenConfigs : c.idleTimeoutMs = 0}
  /\ sessions = {}
  /\ ctx = <<>>
  /\ reqs = EmptyBag
  /\ resp = NoResp
  /\ now = RATE_LIMIT_DELAY
  /\ gcArmed = FALSE
  /\ nextGc = 0
  /\ closeSt = "idle"
  /\ closeQueue = {}
  /\ closeWait = 0
  /\ startup = "listening"
  /\ mode = "http"
  /\ shuttingDown = FALSE
  /\ procSt = "running"
  /\ exitCode = 0
  /\ forceExit = "unset"
  /\ fired = {}
  /\ routed = {}
  /\ routineRuns = 0
  /\ idleTimeout = NotResolved
  /\ NoUpstream

NextThrottle ==
  \/ \E c \in Callers : RateLimitedRequest(c)
  \/ \E c \in Callers : DelayOver(c)
  \/ \E c \in Callers, limited \in BOOLEAN : Fetched(c, limited)
  \/ \E c \in Callers : BackoffOver(c)
  \/ \E c \in Callers : Refetched(c)
  \/ ClockTick

SpecThrottle == InitThrottle /\ [][NextThrottle]_vars

\* --- several sessions of the HTTP server, each with its Session Core ---
SessionTools == {"github_tool_groups_load", "github_rest_mutate"}
SessionBatches ==
  {{"core"}, {"rest"}, {"rest", "no_such_group"}} \cup
  {{g} : g \in ObjectPrototypeKeys}

SessionArgs(name) ==
  CASE name = "github_tool_groups_load" ->
         [groups : SessionBatches, confirm : {""}]
    [] OTHER -> [groups : {{}}, confirm : {"CONFIRM_GITHUB_WRITE"}]

NextSessions ==
  \/ ListTools
  \/ \E name \in SessionTools : \E args \in SessionArgs(name) :
       CallTool(name, args, TRUE)
  \/ \E s \in Peers : PeerCreate(s)
  \/ \E s \in Peers, groups \in SessionBatches : PeerLoad(s, groups)

SpecSessions == InitCatalog /\ [][NextSessions]_vars

\* SpecProc: the process in either transport mode and its shutdown
\* triggers.  The awaited promises settle when the environment lets them
\* (possibly never); a timer that is armed does fire.
InitProc ==
  /\ mode \in {"stdio", "http"}
  /\ shuttingDown = FALSE
  /\ procSt = "running"
  /\ exitCode = 0
  /\ forceExit = "unset"
  /\ fired = {}
  /\ routed = {}
  /\ routineRuns = 0
  /\ idleTimeout = NotResolved
  /\ NoUpstream
  /\ cfg \in {c \in OpenConfigs : c.idleTimeoutMs = 0}
  /\ sessions = {}
  /\ ctx = <<>>
  /\ reqs = EmptyBag
  /\ resp = NoResp
  /\ now = 0
  /\ gcArmed = FALSE
  /\ nextGc = 0
  /\ closeSt = "idle"
  /\ closeQueue = {}
  /\ closeWait = 0
  /\ startup = "listening"
  /\ CatalogIdle

NextProc ==
  \/ \E t \in Triggers("stdio") : Trigger(t)
  \/ AwaitSettles
  \/ ForceExitFires

SpecProc == InitProc /\ [][NextProc]_vars /\ WF_vars(ForceExitFires)

(* ------------------------------ properties ---------------------------- *)
\* the last response answers a request that presented the id of a session
\* created on one endpoint at the other configured endpoint
ForeignAnswered ==
  /\ resp.sid \in 1..Len(ctx)
  /\ ctx[resp.sid].sid = resp.sid
  /\ endpointKindOf(resp) \notin {"none", ctx[resp.sid].endpointKind}

\* requests that were handed to a transport (or wait for mcpServer.connect
\* to be handed to the transport constructed for them)
Handed == {q \in InFlight : q.pc \in {"connect", "inith", "xport", "deleting",
                                       "failing"}}

\* C1 as stated: every request that presents a session's id at the other
\* endpoint is answered 404.
C1_AlwaysNotFound == ForeignAnswered => resp.status = 404

\* C1: a request that presents the id of a session created on endpoint A at
\* the other configured endpoint B is never handed to that session's
\* transport; unless the Origin or Host check answers it 403 or its POST
\* body cannot be read (400), it is answered 404 by the session lookup, the
\* status an identifier that was never issued gets.
C1_EndpointBound ==
  /\ \A q \in Handed :
       q.sid # NoSid => /\ q.k = q.sid
                        /\ endpointKindOf(q) = ctx[q.k].endpointKind
  /\ ForeignAnswered =>
       \/ resp.at \in {"origin", "host"} /\ resp.status = 403
       \/ resp.at = "body" /\ resp.status = 400
       \/ resp.at \in {"endpoint", "unknown"} /\ resp.status = 404

C1_Witness == ForeignAnswered /\ resp.at = "endpoint" /\ resp.sid \in sessions

\* C2: every request handed to a session's transport, the initialize
\* request included, carried the token the session was created under
\* whenever that token is non-empty; the session's token is the resolved
\* token of its endpoint.
C2_AuthBeforeTransport ==
  /\ \A k \in 1..Len(ctx) :
       ctx[k].authToken = authTokenForEndpoint(ctx[k].endpointKind)
  /\ \A q \in Handed :
       ctx[q.k].authToken # "" => q.auth = ctx[q.k].authToken

C2_Witness ==
  \E q \in Handed : /\ q.pc = "xport"
                    /\ ctx[q.k].authToken # ""
                    /\ ctx[q.k].endpointKind = "cutover"
                    /\ resp.status = 401

\* C3: the session table never holds more than maxSessions entries.
C3_TableBounded == Cardinality(sessions) <= cfg.maxSessions

\* request q is resumed by this step (one copy of it leaves its await)
Resumed(q) == CopiesIn(q, reqs') < CopiesIn(q, reqs)

\* C4: when the body of an initialize request (no session id, past the
\* Origin, Host and authentication checks) has been read while the table
\* holds maxSessions entries, the request is answered 503 (400 if the body
\* is not an initialize message), no ctx, transport or Session Core is
\* constructed, and the table is unchanged.
C4_RejectAtCapacity ==
  [][\A q \in InFlight :
       (/\ q.pc = "body" /\ q.sid = NoSid /\ Resumed(q)
        /\ Cardinality(sessions) >= cfg.maxSessions)
       => /\ ctx' = ctx
          /\ sessions' = sessions
          /\ BagCardinality(reqs') < BagCardinality(reqs)
          /\ resp'.at \in {"capacity", "noinit", "body"}
          /\ resp'.at = "capacity" => resp'.status = 503]_vars

C4_Witness ==
  /\ resp.at = "capacity"
  /\ resp.status = 503
  /\ Cardinality(sessions) = cfg.maxSessions
  /\ Len(ctx) = cfg.maxSessions

\* C5: whatever triggers fire and however they interleave, the teardown
\* body of a session is entered at most once: its transport is closed at
\* most once and its Session Core shut down at most once; a session that
\* left the table had the body entered exactly once, a session in the
\* table is untouched, and a finished teardown has closed the transport
\* and shut down the Session Core exactly once each.
C5_TeardownOnce ==
  \A k \in 1..Len(ctx) :
    /\ ctx[k].bodyRuns <= 1
    /\ ctx[k].closeCalls <= 1
    /\ ctx[k].shutCalls <= 1
    /\ k \in sessions => ctx[k].sid = k /\ ctx[k].stage = "live"
                         /\ ctx[k].bodyRuns = 0
    /\ (ctx[k].sid = k /\ k \notin sessions) => ctx[k].bodyRuns = 1
    /\ ctx[k].stage = "done" => ctx[k].closeCalls = 1 /\ ctx[k].shutCalls = 1

\* the failed initialize called cleanupSession after another trigger had
\* begun the teardown: it was answered at once, the teardown still running
C5_Witness ==
  /\ Len(ctx) = 1
  /\ ctx[1].bodyRuns = 1
  /\ ctx[1].stage = "closing"
  /\ resp.status = 500
  /\ reqs = EmptyBag

\* C6: a session in the table has been idle for less than T plus one tick.
C6_ReapedWithinTick ==
  \A s \in sessions :
    now - ctx[s].lastActivityAt < cfg.idleTimeoutMs + tickMs(cfg.idleTimeoutMs)

\* C7: the idle sweep removes a session only if the session's last activity
\* (a request addressed to it that passed authentication, or an onActivity
\* callback) lies at least T back.
C7_NeverPremature ==
  [][nextGc' # nextGc =>
       \A s \in sessions \ sessions' :
         now - ctx[s].actAt >= cfg.idleTimeoutMs]_vars

\* a session with a request open was idle, for less than T, when the sweep
\* of this instant ran, and is still in the table
C7_Witness ==
  \E q \in InFlight :
    /\ q.pc = "xport"
    /\ q.k \in sessions
    /\ gcArmed
    /\ now > 0
    /\ nextGc > now
    /\ now - ctx[q.k].actAt > 0

\* C8: when close() has completed the session table is empty and every
\* session ever created has had its transport closed and its Session Core
\* shut down.
C8_ClosedMeansEmpty ==
  closeSt = "done" =>
    /\ sessions = {}
    /\ \A k \in 1..Len(ctx) : ctx[k].closeCalls = 1 /\ ctx[k].shutCalls = 1

\* C9: once a shutdown trigger has fired the process eventually exits.
C9_ShutdownTerminates == (fired # {}) ~> (procSt = "exited")

\* C10: every trigger that occurred called the shutdown routine, and the
\* body of the routine was entered at most once.
C10_AllTriggersRouted == fired \subseteq routed /\ routineRuns <= 1

\* the failed initialize request q completes in this step (it is answered
\* 500 by the outer catch block)
InitFailed(q) ==
  /\ q.sid = NoSid
  /\ q.pc \in {"inith", "failing"}
  /\ Resumed(q)
  /\ BagCardinality(reqs') < BagCardinality(reqs)
  /\ resp'.status = 500

\* C11 as stated: when a failed initialize request completes, its transport
\* has been closed, its Session Core shut down, and the table has no entry
\* for it.
C11_TornDownOnCompletion ==
  [][\A q \in InFlight :
       InitFailed(q) => /\ q.k \notin sessions'
                        /\ ctx'[q.k].stage = "done"
                        /\ ctx'[q.k].closeCalls = 1
                        /\ ctx'[q.k].shutCalls = 1]_vars

\* C11: when a failed initialize request completes, the table has no entry
\* for its transport and the transport's close() has been called exactly
\* once; close() and the Session Core's shutdown have also completed if no
\* session id had been assigned or if this request ran the teardown itself.
\* If a session id had been assigned and another trigger had begun the
\* teardown, that teardown may still be running.
C11_TeardownBegun ==
  [][\A q \in InFlight :
       InitFailed(q) =>
         /\ q.k \notin sessions'
         /\ ctx'[q.k].stage \in {"closing", "shutting", "done"}
         /\ ctx'[q.k].closeCalls = 1
         /\ (ctx[q.k].sid = NoSid \/ q.pc = "failing") =>
              ctx'[q.k].stage = "done" /\ ctx'[q.k].shutCalls = 1]_vars

C11_Witness ==
  /\ Len(ctx) = 1
  /\ ctx[1].sid = 1
  /\ ctx[1].stage = "done"
  /\ ctx[1].shutCalls = 1
  /\ resp.status = 500
  /\ resp.sid = NoSid
  /\ reqs = EmptyBag

\* session id k was issued and its entry has left the table
Destroyed(k) == k \in 1..Len(ctx) /\ ctx[k].sid = k /\ k \notin sessions

\* this step answers a request that presented session id k without handing
\* it to a transport: at its arrival, or when its body has been read
AnsweredUnhanded(k) ==
  \/ reqs' = reqs /\ resp' # resp /\ resp'.sid = k
  \/ \E q \in InFlight : /\ q.pc = "body" /\ q.sid = k /\ Resumed(q)
                         /\ BagCardinality(reqs') < BagCardinality(reqs)

\* this step hands a request that presents session id k to a transport
HandedNow(k) ==
  \E q \in BagToSet(reqs') :
    q.pc = "xport" /\ q.sid = k /\ CopiesIn(q, reqs') > CopiesIn(q, reqs)

\* this step answers the DELETE request q
DeleteAnswered(q) ==
  /\ q.method = "DELETE"
  /\ q.pc \in {"xport", "deleting"}
  /\ Resumed(q)
  /\ BagCardinality(reqs') < BagCardinality(reqs)

SessionlessAtAuth(r) ==
  /\ ~atMetadataPath(r)
  /\ endpointKindOf(r) # "none"
  /\ ~rejectIfOriginNotAllowed(r)
  /\ ~rejectIfHostNotAllowed(r)
  /\ r.sid = NoSid

\* C13: with a token configured for the endpoint a request is matched to,
\* a request without session id that passes the Origin and Host checks and
\* does not carry that token is answered 401 with the WWW-Authenticate
\* header `Bearer`, or `Bearer resource_metadata="<url>"` when a
\* resource-metadata URL is configured; the step that answers it creates no
\* session.
C13_ChallengeOnMissingToken ==
  /\ [](\A r \in GateRequests :
         (/\ SessionlessAtAuth(r)
          /\ authTokenForEndpoint(endpointKindOf(r)) # ""
          /\ r.auth # authTokenForEndpoint(endpointKindOf(r)))
         => /\ Gate(r).status = 401
            /\ Gate(r).at = "auth"
            /\ Gate(r).hdr =
                 IF cfg.oauthResourceMetadataUrl = "" THEN <<"Bearer">>
                 ELSE <<"Bearer", "resource_metadata",
                        cfg.oauthResourceMetadataUrl>>)
  /\ [][(resp' # resp /\ resp'.at = "auth")
         => /\ resp'.status = 401
            /\ resp'.hdr # <<>>
            /\ reqs' = reqs
            /\ sessions' = sessions
            /\ ctx' = ctx]_vars

\* a session exists on the primary endpoint, and a session-less request to
\* the cutover endpoint was answered 401 with the metadata URL advertised
C13_Witness ==
  /\ sessions # {}
  /\ resp.at = "auth"
  /\ resp.status = 401
  /\ resp.path = "cutover"
  /\ Len(resp.hdr) = 3
  /\ resp.hdr[3] = cfg.oauthResourceMetadataUrl

C15_NonInitializeIs400 ==
  /\ [](\A r \in GateRequests :
         (/\ SessionlessAtAuth(r)
          /\ ~unauthorizedChallenge(r, authTokenForEndpoint(endpointKindOf(r)))
          /\ r.method # "POST")
         => /\ Gate(r) = Pass
            /\ InitVerdict(Held(r), "none").status = 400)
  /\ [](\A q \in InFlight :
         (q.pc = "body" /\ q.sid = NoSid)
         => InitVerdict(q, "other").status = 400)
  /\ [][/\ (resp' # resp /\ resp'.sid = NoSid
            /\ resp'.at \in {"noinit", "body"})
           => /\ resp'.status = 400
              /\ sessions' = sessions
              /\ ctx' = ctx
        /\ \A q \in InFlight :
             (/\ q.pc = "body" /\ q.sid = NoSid /\ Resumed(q)
              /\ ctx' = ctx /\ resp'.at # "capacity")
             => (resp'.status = 400 /\ sessions' = sessions)]_vars

\* with a session in the table, a request that carried the endpoint's token
\* and no session id was answered 400 for not being an initialize POST
C15_Witness ==
  /\ sessions # {}
  /\ cfg.authToken # ""
  /\ resp.path = "primary"
  /\ resp.sid = NoSid
  /\ resp.at = "noinit"
  /\ resp.status = 400

\* request r is matched to an endpoint (its path is the primary or the
\* cutover path, and not the metadata path)
AtEndpoint(r) == ~atMetadataPath(r) /\ endpointKindOf(r) # "none"

\* C16: with a non-empty Origin allow-list a request matched to an endpoint
\* whose Origin header equals no entry of the list, compared without regard
\* to case, is answered 403, and one whose Origin header equals an entry is
\* not rejected by the rule; a request without Origin header is never
\* rejected by the rule, and with an empty allow-list the rule rejects
\* nothing.  The step that answers 403 leaves the session table alone.
C16_OriginRule ==
  /\ [](\A r \in GateRequests :
         AtEndpoint(r) =>
           /\ (/\ cfg.allowedOrigins # {}
               /\ r.origin # ""
               /\ \A a \in cfg.allowedOrigins : Lower(a) # Lower(r.origin))
              => Gate(r) = Verdict(403, "origin")
           /\ (\/ cfg.allowedOrigins = {}
               \/ r.origin = ""
               \/ \E a \in cfg.allowedOrigins : Lower(a) = Lower(r.origin))
              => ~rejectIfOriginNotAllowed(r) /\ Gate(r).at # "origin")
  /\ [][(resp' # resp /\ resp'.at = "origin")
         => /\ resp'.status = 403
            /\ cfg.allowedOrigins # {}
            /\ reqs' = reqs
            /\ sessions' = sessions
            /\ ctx' = ctx]_vars

\* with a session in the table, a request with an Origin outside the
\* allow-list was answered 403
C16_Witness ==
  /\ sessions # {}
  /\ cfg.allowedOrigins # {}
  /\ resp.at = "origin"
  /\ resp.status = 403

\* C17: the Host rule rejects a request matched to an endpoint (and past
\* the Origin rule) exactly when the Host allow-list is non-empty and the
\* request carries a Host header that equals no entry of the list, compared
\* without regard to case; a request without Host header is not rejected.
C17_HostRuleSymmetric ==
  \A r \in GateRequests :
    (AtEndpoint(r) /\ ~rejectIfOriginNotAllowed(r)) =>
      (Gate(r) = Verdict(403, "host")
         <=> /\ cfg.allowedHosts # {}
             /\ r.host # ""
             /\ \A a \in cfg.allowedHosts : Lower(a) # Lower(r.host))

\* startHttpMcpServer threw one of its configuration errors
StartFailed == startup \in {CutoverTokenRequired, RefusingPublicBind}

C19_TlsPairingValidated ==
  startup \in {"binding", "listening"} =>
    /\ cfg.tlsKeyPath = "" <=> cfg.tlsCertPath = ""
    /\ scheme(cfg) = "http" => (cfg.tlsKeyPath = "" /\ cfg.tlsCertPath = "")
    /\ scheme(cfg) = "https" => (cfg.tlsKeyPath # "" /\ cfg.tlsCertPath # "")

\* C20: in lazy mode tools/list returns the three bootstrap tools and the
\* tools of the loaded groups, no more and no less; in both modes the
\* three bootstrap tools are listed and pass the access check of tools/call.
C20_BootstrapPlusLoaded ==
  /\ getListedTools.ok
  /\ TOOL_MODE = "lazy" =>
       getListedTools.tools =
         BOOTSTRAP_TOOL_NAMES
           \cup UNION {TOOL_GROUPS[g] :
                         g \in loadedGroups \cap DOMAIN TOOL_GROUPS}
  /\ \A t \in BOOTSTRAP_TOOL_NAMES :
       t \in getListedTools.tools /\ ensureToolAccessible(t) = "ok"
  /\ listed.ok
  /\ listed # NoList => BOOTSTRAP_TOOL_NAMES \subseteq listed.tools


\* the tools of the groups (the catalog without the bootstrap tools)
GroupTools == UNION {TOOL_GROUPS[g] : g \in DOMAIN TOOL_GROUPS}

\* the payload a client reads from a result: the JSON of its text content
payloadOf(result) ==
  IF result.content # <<>> THEN result.content[1] ELSE NoData

\* a step that answers a tools/call request for tool T
CallOf(T) == called' # called /\ called'.name = T

\* C21: in lazy mode a call of a catalog tool T whose owning group G is
\* not loaded is answered with a tool error whose payload has
\* required_group = G, without running the tool or calling the GitHub
\* API; and once github_tool_groups_load has been called with exactly
\* [G], T passes the access check.
C21_GatingRoundTrip ==
  [][\A T \in GroupTools :
       /\ (/\ TOOL_MODE = "lazy"
           /\ TOOL_TO_GROUP(T) \notin loadedGroups
           /\ CallOf(T))
          => (/\ called'.result.isError
              /\ "required_group" \in DOMAIN payloadOf(called'.result)
              /\ payloadOf(called'.result).required_group = TOOL_TO_GROUP(T)
              /\ called'.out # "dispatched"
              /\ ~called'.upstream)
       /\ (/\ TOOL_MODE = "lazy"
           /\ CallOf("github_tool_groups_load")
           /\ called'.args # NoArgs
           /\ called'.args.groups = {TOOL_TO_GROUP(T)})
          => ensureToolAccessible(T)' = "ok"]_vars

\* a step that answers github_tool_groups_load called with exactly [G]
LoadOf(G) ==
  /\ CallOf("github_tool_groups_load")
  /\ called'.args # NoArgs
  /\ called'.args.groups = {G}

\* C22: github_tool_groups_load called with a registered group id that is
\* already loaded (the repeat of a load) reports the id in `loaded`, is
\* not an error, and leaves the loaded groups and the listed tools as they
\* were; in full mode every such call does.
C22_LoadIdempotent ==
  [][\A G \in DOMAIN TOOL_GROUPS :
       (LoadOf(G) /\ (G \in loadedGroups \/ TOOL_MODE # "lazy"))
       => (/\ ~called'.result.isError
           /\ payloadOf(called'.result).loaded = {G}
           /\ payloadOf(called'.result).unknown = {}
           /\ loadedGroups' = loadedGroups
           /\ getListedTools' = getListedTools)]_vars

\* "search" is loaded by preloading only, together with "core": the last
\* call loaded "core" again
C22_Witness ==
  /\ TOOL_MODE = "lazy"
  /\ "search" \in loadedGroups
  /\ called.name = "github_tool_groups_load"
  /\ called.args # NoArgs
  /\ called.args.groups = {"core"}
  /\ payloadOf(called.result).loaded = {"core"}

\* C23: no step removes a group from loadedGroups, so no step takes a tool
\* out of the listing; and a step that changes loadedGroups answers a call
\* of github_tool_groups_load (tools/list, the other bootstrap tools, gated
\* and failed calls leave the set as it is).
C23_LoadedGroupsMonotone ==
  [][/\ loadedGroups \subseteq loadedGroups'
     /\ getListedTools.ok
        => (/\ getListedTools'.ok
            /\ getListedTools.tools \subseteq getListedTools'.tools)
     /\ loadedGroups' # loadedGroups
        => (/\ CallOf("github_tool_groups_load")
            /\ ~called'.result.isError)]_vars

\* C24: github_tool_groups_load called with a non-empty list answers with
\* a partition of the requested ids: `loaded` is exactly the requested ids
\* that are groups of TOOL_GROUPS, `unknown` exactly the others, and the
\* loaded groups change by registered ids only.
C24_LoadPartitionsRequest ==
  [][(/\ CallOf("github_tool_groups_load")
      /\ called'.args # NoArgs
      /\ called'.args.groups # {})
     => LET requested == called'.args.groups
            answer == payloadOf(called'.result)
        IN /\ ~called'.result.isError
           /\ answer.loaded = requested \cap DOMAIN TOOL_GROUPS
           /\ answer.unknown = requested \ DOMAIN TOOL_GROUPS
           /\ loadedGroups' \ loadedGroups
                \subseteq requested \cap DOMAIN TOOL_GROUPS]_vars

\* C25: in lazy mode a successful github_tool_groups_load calls
\* sendToolListChanged once, when every id of the batch is in
\* loadedGroups, so that a tools/list made in reaction lists the tools of
\* every group of the batch; whether or not the notification is delivered
\* the call succeeds and the groups stay loaded.
C25_NotifyAfterBatch ==
  [][(/\ TOOL_MODE = "lazy"
      /\ CallOf("github_tool_groups_load")
      /\ called'.out = "dispatched")
     => LET batch == payloadOf(called'.result).loaded
        IN /\ called'.notified \in {"delivered", "failed"}
           /\ ~called'.result.isError
           /\ loadedGroups' = loadedGroups \cup batch
           /\ getListedTools'.ok
           /\ \A g \in batch \cap DOMAIN TOOL_GROUPS :
                TOOL_GROUPS[g] \subseteq getListedTools'.tools]_vars

\* C26: a github_tool_groups_load in one session leaves the loaded groups,
\* the tools/list result and the access check of every other session as
\* they were, in both directions between the Session Core followed here
\* and the Session Cores of the other sessions; and a new session starts
\* with the configured preload groups.
C26_SessionIsolation ==
  [][/\ \A s \in Peers :
          (peers[s] # NoCore /\ peers'[s] # peers[s])
          => (/\ loadedGroups' = loadedGroups
              /\ getListedTools' = getListedTools
              /\ \A T \in ALL_TOOLS_BY_NAME :
                   ensureToolAccessible(T)' = ensureToolAccessible(T)
              /\ \A t \in Peers \ {s} : peers'[t] = peers[t])
     /\ loadedGroups' # loadedGroups
        => \A s \in Peers :
             /\ peers'[s] = peers[s]
             /\ listedToolsOf(peers'[s]) = listedToolsOf(peers[s])
             /\ \A T \in ALL_TOOLS_BY_NAME :
                  toolAccessibleOf(peers'[s], T) = toolAccessibleOf(peers[s], T)
     /\ \A s \in Peers :
          (peers[s] = NoCore /\ peers'[s] # NoCore)
          => peers'[s] = PRELOAD_GROUPS]_vars

\* one session has loaded "rest", a second one "core", and a third one,
\* whether created before or after, has the preload groups
C26_Witness ==
  /\ TOOL_MODE = "lazy"
  /\ PRELOAD_GROUPS = {}
  /\ loadedGroups = {"rest"}
  /\ peers["B"] = {"core"}
  /\ peers["C"] = {}

\* the payloads a caller can read from a result: the JSON of the text
\* content and the structured content
payloadsOf(result) ==
  {result.content[k] : k \in DOMAIN result.content}
    \cup ({result.structuredContent} \ {NoData})

\* C27: under every output mode and output-schema mode the result of a
\* failed tools/call carries a JSON object with an `error` field, and the
\* result of a gated call one that also has `required_group`.
C27_FailuresCarryErrorPayload ==
  (called.name # "" /\ called.result # NoData /\ called.result.isError)
  => \E payload \in payloadsOf(called.result) :
       /\ "error" \in DOMAIN payload
       /\ called.out = "not currently available"
          => "required_group" \in DOMAIN payload

\* C28: the array tools/list returns holds the listed tools in the order
\* of their names, each once; and it is the same array for every order in
\* which the loaded groups were added to loadedGroups (g1 then g2, g2
\* then g1, or both in one batch in either order).
C28_ListSortedOrderIndependent ==
  /\ listed.ok
     => (/\ Range(listed.array) = listed.tools
         /\ \A i, j \in DOMAIN listed.array :
              i < j => localeCompare(listed.array[i], listed.array[j]) < 0)
  /\ getListedTools.ok
     => \A order \in Orders(loadedGroups) :
          listedToolsArray(order) = listedToolsArray(loadOrder)

\* "rest" was loaded before "core", and tools/list has returned the three
\* bootstrap tools and the six tools of the two groups
C28_Witness ==
  /\ TOOL_MODE = "lazy"
  /\ loadOrder = <<"rest", "core">>
  /\ listed.ok
  /\ Len(listed.array) = 9
  /\ listed.array[1] = "github_get_file_content"

\* C29: resolveIdleTimeoutMs returns the value of --idle-timeout-ms when
\* it is given on the command line with a valid value; else a valid
\* non-negative MCP_IDLE_TIMEOUT_MS; else 0 for the stdio transport and
\* 300000 for the http transport.
C29_IdleTimeoutPrecedence ==
  idleTimeout.resolved # {}
  => LET cli == parseNonNegativeInt(idleTimeout.cliValue)
         env == parseNonNegativeInt(idleTimeout.envValue)
     IN /\ (idleTimeout.cliProvided /\ cli # {})
           => idleTimeout.resolved = cli
        /\ (~idleTimeout.cliProvided /\ env # {})
           => idleTimeout.resolved = env
        /\ (~idleTimeout.cliProvided /\ env = {})
           => idleTimeout.resolved =
                IF idleTimeout.transport = "stdio" THEN {0} ELSE {300000}

\* C30: a call of github_rest_mutate whose `confirm` argument is not
\* exactly CONFIRM_GITHUB_WRITE (missing, empty, or another string) is
\* answered with a tool error and sends no request to GitHub.
C30_MutateNeedsConfirm ==
  (/\ called.name = "github_rest_mutate"
   /\ (called.args = NoArgs \/ called.args.confirm # "CONFIRM_GITHUB_WRITE"))
  => (~called.upstream /\ called.result.isError)

\* the call reached the case of the tool with another string as `confirm`
C30_Witness ==
  /\ called.name = "github_rest_mutate"
  /\ called.args # NoArgs
  /\ called.args.confirm = "confirm_github_write"
  /\ called.out = "Refusing"
  /\ called.result.isError
  /\ ~called.upstream

\* C31: a run of the idle sweep destroys no session that a request handed
\* to its transport is still waiting on (the response not yet finished),
\* however long the Session Core takes to serve the call.
C31_SweepSparesBusySession ==
  [][nextGc' # nextGc
     => \A sid \in sessions \ sessions' :
          ~\E q \in InFlight : q.pc = "xport" /\ q.k = sid]_vars

\* C32: whenever no request is in flight, every transport and Session Core
\* an initialize request has constructed is owned by an entry of the
\* session table or has been closed and shut down, also when the transport
\* answered the initialize request with an error of its own and assigned no
\* session id.
C32_NoCoreLeaked ==
  reqs = EmptyBag
  => \A k \in 1..Len(ctx) : k \in sessions \/ ctx[k].stage = "done"

\* C33: any two fetches of rateLimitedRequest, of one caller or of two,
\* are at least RATE_LIMIT_DELAY apart.
C33_GloballyThrottled ==
  \A i, j \in DOMAIN fetchedAt :
    i < j => fetchedAt[j] - fetchedAt[i] >= RATE_LIMIT_DELAY

(* ------------------------- rejected requests -------------------------- *)
\* SpecReject: requests of every shape, one at a time, under every token
\* and endpoint configuration without allow-lists, while the clock runs
\* (idle GC disabled); one session is followed
InitReject ==
  InitWith({c \in Configs : /\ c.idleTimeoutMs = 0
                            /\ c.allowedOrigins = {} /\ c.allowedHosts = {}
                            /\ (~c.cutoverPath => c.oauthCutoverToken = "")})

RejectRequests ==
  {r \in Requests : r.origin = "" /\ r.host = "mcp.example"}

NextReject ==
  \/ \E r \in RejectRequests : Arrive(r, 1)
  \/ \E q \in InFlight, b \in Bodies : BodyRead(q, b, MaxInits)
  \/ \E q \in InFlight : Connected(q, "ok")
  \/ \E q \in InFlight : InitDone(q, "ok")
  \/ \E q \in InFlight : XportDone(q, "ok")
  \/ AdvanceTime(tickMs(cfg.idleTimeoutMs), MaxTicks)

SpecReject == InitReject /\ [][NextReject]_vars

\* the statuses of the responses the handler writes itself to turn a
\* request away
RejectStatuses == {400, 401, 403, 404, 405, 503}

\* the statements of the handler that turn a request away
RejectedAt == {"metadata", "path", "origin", "host", "auth", "body",
               "unknown", "endpoint", "sessauth", "noinit", "capacity"}

\* this step writes a response
Answered ==
  resp' # resp \/ BagCardinality(reqs') < BagCardinality(reqs)

\* this step hands to session k's transport a request on the session's own
\* endpoint that carries the session's token
HandedOwn(k) ==
  \E q \in BagToSet(reqs') :
    /\ q.pc = "xport" /\ q.sid = k
    /\ CopiesIn(q, reqs') > CopiesIn(q, reqs)
    /\ endpointKindOf(q) = ctx[k].endpointKind
    /\ ~unauthorizedChallenge(q, ctx[k].authToken)

InitDecide ==
  InitWith({c \in GateConfigs : /\ c.cutoverPath
                                /\ c.allowedOrigins # {}
                                /\ c.allowedHosts # {}
                                /\ c.oauthProtectedResourcePath # ""})

DecideRequests ==
  [path : {"primary", "cutover", "other", "meta"}, sid : KnownSids,
   auth : Tokens, method : {"GET", "POST", "DELETE"}, origin : Origins,
   host : Hosts]

NextDecide ==
  \/ \E r \in DecideRequests : Arrive(r, 1)
  \/ \E q \in InFlight, b \in Bodies : BodyRead(q, b, 1)
  \/ \E q \in InFlight : Connected(q, "ok")
  \/ \E q \in InFlight : InitDone(q, "ok")
  \/ \E q \in InFlight : XportDone(q, "ok")

SpecDecide == InitDecide /\ [][NextDecide]_vars

\* the checks that need no body, in the stated order: the status answered,
\* or 0 when the request passes them
arrivalChecks(r) ==
  IF atMetadataPath(r) THEN (IF r.method = "GET" THEN 200 ELSE 405)
  ELSE IF endpointKindOf(r) = "none" THEN 404
  ELSE IF rejectIfOriginNotAllowed(r) THEN 403
  ELSE IF rejectIfHostNotAllowed(r) THEN 403
  ELSE IF r.sid = NoSid
          /\ unauthorizedChallenge(r, authTokenForEndpoint(endpointKindOf(r)))
       THEN 401
  ELSE 0

\* the checks after them, in the stated order; with readsBody a POST whose
\* body cannot be read is answered 400 first
laterChecks(r, body, readsBody) ==
  IF readsBody /\ r.method = "POST" /\ body = "invalid" THEN 400
  ELSE IF r.sid = NoSid THEN
    IF r.method # "POST" \/ body # "initialize" THEN 400
    ELSE IF Cardinality(sessions) >= cfg.maxSessions THEN 503
    ELSE 0
  ELSE IF r.sid \notin sessions THEN 404
  ELSE IF ctx[r.sid].endpointKind # endpointKindOf(r) THEN 404
  ELSE IF unauthorizedChallenge(r, ctx[r.sid].authToken) THEN 401
  ELSE 0

\* the decision function: the status of the first failing check, or 0 when
\* the request passes all of them and reaches a transport
decision(r, body, readsBody) ==
  IF arrivalChecks(r) # 0 THEN arrivalChecks(r)
  ELSE laterChecks(r, body, readsBody)

\* what this step did with the request it handled: the status it answered
\* with, or 0 when it kept the request (for its body, or for a transport)
outcome ==
  IF BagCardinality(reqs') > BagCardinality(reqs) THEN 0
  ELSE IF \E q \in BagToSet(reqs') : CopiesIn(q, reqs') > CopiesIn(q, reqs)
       THEN 0
  ELSE resp'.status

\* the handler runs to its first await for request r: a POST is kept for
\* its body when it passes the checks that need none; any other request is
\* decided
DecidedOnArrival(r) ==
  outcome = IF r.method = "POST" THEN arrivalChecks(r)
            ELSE decision(r, "none", FALSE)

\* the requests the handler keeps as q
Shaped(q) ==
  [path : {q.path}, sid : {q.sid}, auth : {q.auth}, method : {q.method},
   origin : Origins, host : Hosts]

\* the requests that were suspended as q
Whole(q) == {r \in Shaped(q) : arrivalChecks(r) = 0}

\* the requests this step can be the arrival of: those with the path and
\* session id of the response written, or those kept as a request now in
\* flight
Arriving ==
  IF reqs' = reqs
  THEN [path : {resp'.path}, sid : {resp'.sid}, auth : Tokens,
        method : {"GET", "POST", "DELETE"}, origin : Origins, host : Hosts]
  ELSE UNION {Shaped(q) : q \in BagToSet(reqs')}

\* C35 as stated: the outcome of every request is the status of the first
\* failing check in the order metadata path, unknown path, Origin, Host,
\* then endpoint auth, not-an-initialize, capacity (no session id) or
\* unknown/wrong-endpoint session, session auth (session id).
C35_FixedOrder ==
  [][/\ \A r \in Arriving : Arrive(r, 1) => DecidedOnArrival(r)
     /\ \A q \in InFlight, b \in Bodies :
          BodyRead(q, b, 1)
          => \A r \in Whole(q) : outcome = decision(r, b, FALSE)]_vars

\* C35: the outcome of every request is the status of the first failing
\* check in the order metadata path, unknown path, Origin, Host, endpoint
\* auth (no session id), unreadable body of a POST, then not-an-initialize
\* and capacity (no session id) or unknown/wrong-endpoint session and
\* session auth (session id); only a request that passes all of them is
\* kept for a transport.
C35_FixedOrderAfterBody ==
  [][/\ \A r \in Arriving : Arrive(r, 1) => DecidedOnArrival(r)
     /\ \A q \in InFlight, b \in Bodies :
          BodyRead(q, b, 1)
          => \A r \in Whole(q) : outcome = decision(r, b, TRUE)]_vars

\* a POST with an unreadable body that presents the id of a live session
\* on its endpoint has been answered 400; the session is still in the table
C35_Witness ==
  /\ resp.at = "body" /\ resp.status = 400
  /\ resp.sid \in sessions
  /\ ctx[resp.sid].endpointKind = endpointKindOf(resp)

(* ------------------------- the catalog in lazy mode ------------------- *)
\* the groups of TOOL_GROUPS that name tool T
groupsOf(T) == {g \in DOMAIN TOOL_GROUPS : T \in TOOL_GROUPS[g]}

\* C36: every non-bootstrap tool belongs to exactly one group and every
\* group names only defined tools; in lazy mode, once
\* github_tool_groups_load has been called with exactly [G], every tool of
\* G is listed and passes the access check; and no gated call of a defined
\* tool is answered with required_group "unknown".
C36_CatalogReachable ==
  [][/\ \A T \in ALL_TOOLS_BY_NAME \ BOOTSTRAP_TOOL_NAMES :
          /\ Cardinality(groupsOf(T)) = 1
          /\ \E G \in groupsOf(T) :
               (TOOL_MODE = "lazy" /\ LoadOf(G))
               => /\ getListedTools'.ok
                  /\ T \in getListedTools'.tools
                  /\ ensureToolAccessible(T)' = "ok"
     /\ \A g \in DOMAIN TOOL_GROUPS : TOOL_GROUPS[g] \subseteq ALL_TOOLS_BY_NAME
     /\ (/\ called' # called
         /\ called'.name \in ALL_TOOLS_BY_NAME
         /\ called'.out = "not currently available")
        => payloadOf(called'.result).required_group # "unknown"]_vars

\* the tools of group g are listed by tools/list
groupIsListed(g) ==
  getListedTools.ok /\ TOOL_GROUPS[g] \subseteq getListedTools.tools

\* C37: in both tool modes the `loaded` flag that
\* github_tool_catalog_search reports for a group is the one
\* github_tool_groups_list reports for it, and both are true exactly when
\* the tools of the group are listed.
C37_LoadedFlagsAgree ==
  [][/\ (CallOf("github_tool_catalog_search") /\ called'.out = "dispatched")
        => \A g \in DOMAIN payloadOf(called'.result).groups :
             /\ payloadOf(called'.result).groups[g].loaded
                  = groupsListed'[g].loaded
             /\ payloadOf(called'.result).groups[g].loaded
                  <=> groupIsListed(g)'
     /\ (CallOf("github_tool_groups_list") /\ called'.out = "dispatched")
        => \A g \in DOMAIN payloadOf(called'.result).groups :
             /\ \A q \in Queries :
                  g \in DOMAIN groupMatches(q)'
                  => payloadOf(called'.result).groups[g].loaded
                       = groupMatches(q)'[g].loaded
             /\ payloadOf(called'.result).groups[g].loaded
                  <=> groupIsListed(g)']_vars

(* ------------------------- requests during a teardown ----------------- *)
\* SpecTeardown: requests of every method, body, Origin and Host on a
\* primary endpoint without token, with and without allow-lists, two at a
\* time, while sessions are destroyed by DELETE, by a failed initialize, by
\* their transport closing and by close()
InitTeardown ==
  InitWith({c \in Configs : /\ c.idleTimeoutMs = 0
                            /\ c.authToken = "" /\ c.oauthCutoverToken = ""
                            /\ ~c.cutoverPath
                            /\ (c.allowedOrigins = {} <=> c.allowedHosts = {})})

TeardownRequests == {r \in Requests : r.path = "primary" /\ r.auth = ""}

NextTeardown ==
  \/ \E r \in TeardownRequests : Arrive(r, 2)
  \/ \E q \in InFlight, b \in Bodies : BodyRead(q, b, MaxInits)
  \/ \E q \in InFlight : Connected(q, "ok")
  \/ \E q \in InFlight, out \in {"ok", "throw"} : InitDone(q, out)
  \/ \E q \in InFlight : XportDone(q, "ok")
  \/ \E q \in InFlight : AwaitDone(q)
  \/ \E k \in 1..MaxInits : CleanupResume(k)
  \/ \E k \in 1..MaxInits : TransportClosed(k)
  \/ CloseStart
  \/ CloseNext
  \/ ListenerClosed

SpecTeardown == InitTeardown /\ [][NextTeardown]_vars

\* the teardown of session k has started and its transport close or its
\* Session Core shutdown is still pending
TeardownPending(k) ==
  Destroyed(k) /\ ctx[k].stage \in {"closing", "shutting"}

\* this step starts the teardown of session k
TeardownStarts(k) ==
  ctx[k].sid = k /\ ctx[k].stage = "live" /\ ctx'[k].stage # "live"

\* C38 as stated: while the teardown of session S is pending no request is
\* handed to S's transport, and every request that presents S's id and is
\* answered without being handed gets 404.
C38_PendingAlways404 ==
  [][\A k \in 1..Len(ctx) :
       TeardownPending(k)
       => /\ ~HandedNow(k)
          /\ AnsweredUnhanded(k) => resp'.status = 404]_vars

\* C38: the step that starts the teardown of session S removes S from the
\* table; from then on, also while the transport close or the Session Core
\* shutdown is pending, no request is handed to S's transport, and a
\* request that presents S's id is answered 404 unless the Origin or Host
\* check answers it 403 or its POST body cannot be read (400).
C38_UnreachableOnceTornDown ==
  [][\A k \in 1..Len(ctx) :
       /\ TeardownStarts(k) => k \notin sessions'
       /\ Destroyed(k)
          => /\ ~HandedNow(k)
             /\ k \notin sessions'
             /\ AnsweredUnhanded(k)
                => \/ resp'.at \in {"origin", "host"} /\ resp'.status = 403
                   \/ resp'.at = "body" /\ resp'.status = 400
                   \/ resp'.at = "unknown" /\ resp'.status = 404]_vars

\* a request that presented the id of a session whose teardown is pending
\* has been answered 404 by the session lookup
C38_Witness ==
  /\ resp.at = "unknown" /\ resp.status = 404
  /\ resp.sid \in 1..Len(ctx)
  /\ TeardownPending(resp.sid)

(* ------------------------- the outcome of startup --------------------- *)
\* SpecBind: startHttpMcpServer called with every combination of bind
\* host, tokens, cutover path, strict flag and TLS paths, with a listen
\* that succeeds or fails; every step that can be taken is taken
NextBind ==
  \/ StartServer
  \/ Bound
  \/ BindFailed
  \/ EventLoopEmpty

SpecBind ==
  /\ InitStart
  /\ [][NextBind]_vars
  /\ WF_vars(StartServer)
  /\ WF_vars(Bound \/ BindFailed)
  /\ WF_vars(EventLoopEmpty)

\* the call of startHttpMcpServer has resolved with a listening server
StartResolved == startup = "listening"

\* the call of startHttpMcpServer has rejected with an error, which
\* main().catch reports before process.exit(1)
StartRejected == StartFailed /\ procSt = "exited" /\ exitCode = 1

\* C39: the call of startHttpMcpServer eventually resolves with a
\* listening server or rejects with an error, and the process never ends
\* without one of the two.
C39_StartupSettles ==
  /\ <>(StartResolved \/ StartRejected)
  /\ [](procSt = "exited" => StartResolved \/ StartRejected)


====
